---- MODULE Spec2Model ----
(***************************************************************************)
(* State-machine model of just_remember: the SRS scheduler (SRSManager),   *)
(* the sqlite-backed store (GrammarDatabase) and the handlers of the Qt    *)
(* application (JustRememberApp, SettingsWidget) that drive them.          *)
(*                                                                         *)
(* Time.  A datetime is the pair <<seconds, microseconds>>; None is <<>>.  *)
(* The database stores datetime.isoformat() text, which drops the          *)
(* fractional part when microseconds = 0; that text is modelled as <<s>>   *)
(* or <<s, us>> and SQL compares it as text.  Every datetime.now() in the  *)
(* code is a separate clock read: it returns the previous reading or a     *)
(* later one.                                                              *)
(***************************************************************************)
EXTENDS Integers, Sequences, FiniteSets, TLC

VARIABLES
    rows,                   \* table grammar_entries; rows[i].id = i
    settings,               \* table settings: key -> value
    lesson_limit_spinbox,   \* SettingsWidget.lesson_limit_spinbox.value()
    auto_start_checkbox,    \* SettingsWidget.auto_start_checkbox.isChecked()
    current_reviews,        \* JustRememberApp.current_reviews (in-memory entries)
    current_review_index,   \* JustRememberApp.current_review_index (0-based)
    clock,                  \* the latest value datetime.now() has returned
    started,                \* the start_lessons call of the latest handler (<<>> if none)
    promoted,               \* ids start_lessons has returned since the last reset
    answered,               \* number of update_progress calls made in this run
    recorded,               \* the update_progress call of the latest handler (<<>> if none)
    retrieved_entry,        \* test_models.py: the entry the script holds (<<>> if none)
    updated,                \* the update_entry call a script made in the latest step (<<>> if none)
    entry_id,               \* test_models.py: the id add_entry returned to the script (0 if none)
    dialog,                 \* the modal QMessageBox a handler is waiting in (<<>> if none)
    last_outcome            \* history, where kept: per row id the latest outcome handle_review_completed stored

vars == <<rows, settings, lesson_limit_spinbox, auto_start_checkbox,
          current_reviews, current_review_index, clock, started, promoted,
          answered, recorded, retrieved_entry, updated, entry_id, dialog,
          last_outcome>>

(***************************************************************************)
(* Bounds of the model.                                                    *)
(***************************************************************************)
MaxItems == 2        \* rows the table may hold
MaxImport == 1       \* entries one imported file may hold
MaxLimit == 1        \* spinbox values explored: 1..MaxLimit and the default
MaxAnswers == 2      \* outcomes recorded in one run
MaxClockHours == 4   \* hours the clock may advance
MaxDriftUs == 1      \* microseconds successive clock reads may add up to
MaxCount == 2        \* counter values of the entries handed to update_progress directly

(***************************************************************************)
(* Enums (models.py).  A member is modelled by its name, its .value is the *)
(* text the database stores.                                               *)
(***************************************************************************)
SRSStage == <<"APPRENTICE_1", "APPRENTICE_2", "APPRENTICE_3", "APPRENTICE_4",
              "GURU_1", "GURU_2", "MASTER", "ENLIGHTENED", "BURNED">>

StageValue(m) ==
    CASE m = "APPRENTICE_1" -> "Apprentice I"
      [] m = "APPRENTICE_2" -> "Apprentice II"
      [] m = "APPRENTICE_3" -> "Apprentice III"
      [] m = "APPRENTICE_4" -> "Apprentice IV"
      [] m = "GURU_1" -> "Guru I"
      [] m = "GURU_2" -> "Guru II"
      [] m = "MASTER" -> "Master"
      [] m = "ENLIGHTENED" -> "Enlightened"
      [] m = "BURNED" -> "Burned"

\* SRSStage(value): the member whose value is the stored text
StageOf(v) == CHOOSE m \in {SRSStage[i] : i \in 1..Len(SRSStage)} : StageValue(m) = v

LessonStatus == <<"NOT_STARTED", "AVAILABLE", "IN_PROGRESS">>

StatusValue(m) ==
    CASE m = "NOT_STARTED" -> "Not Started"
      [] m = "AVAILABLE" -> "Available"
      [] m = "IN_PROGRESS" -> "In Progress"

\* NULL in a TEXT column whose values are written as strings (lesson_status,
\* meaning)
NullText == "<NULL>"

\* LessonStatus(value)
StatusOf(v) == CHOOSE m \in {LessonStatus[i] : i \in 1..Len(LessonStatus)} : StatusValue(m) = v

StageSet == {SRSStage[i] : i \in 1..Len(SRSStage)}
StatusSet == {LessonStatus[i] : i \in 1..Len(LessonStatus)}

\* list.index: 0-based position of a member in list(SRSStage)
StageIndex(m) == (CHOOSE i \in 1..Len(SRSStage) : SRSStage[i] = m) - 1

(***************************************************************************)
(* SRSManager.INTERVALS, in hours (None for BURNED is modelled as -1 and   *)
(* never used: calculate_next_review returns before reading it).           *)
(***************************************************************************)
INTERVALS(m) ==
    CASE m = "APPRENTICE_1" -> 4
      [] m = "APPRENTICE_2" -> 8
      [] m = "APPRENTICE_3" -> 24
      [] m = "APPRENTICE_4" -> 48
      [] m = "GURU_1" -> 168
      [] m = "GURU_2" -> 336
      [] m = "MASTER" -> 720
      [] m = "ENLIGHTENED" -> 2880
      [] m = "BURNED" -> -1

(***************************************************************************)
(* datetime, timedelta and isoformat.                                      *)
(***************************************************************************)
None == <<>>
NULL == <<>>

\* the empty settings table
NoSettings == [k \in {} |-> <<>>]

\* the file holds the tables: init_database creates both and stores the two
\* default settings, and no statement of the code deletes a setting, so the
\* settings table is empty only when the file is new or has been removed
HasTables(stbl) == stbl # NoSettings

\* datetime + timedelta(hours=h)
AddHours(dt, h) == <<dt[1] + h * 3600, dt[2]>>

\* datetime <= datetime
DtLe(a, b) == a[1] < b[1] \/ (a[1] = b[1] /\ a[2] <= b[2])

\* datetime.isoformat(): no fractional part when microsecond = 0
IsoFormat(dt) == IF dt[2] = 0 THEN <<dt[1]>> ELSE <<dt[1], dt[2]>>

\* datetime.fromisoformat()
FromIso(s) == IF Len(s) = 1 THEN <<s[1], 0>> ELSE <<s[1], s[2]>>

\* "x.isoformat() if x else None" of add_entry / update_entry
IsoOrNull(dt) == IF dt = None THEN NULL ELSE IsoFormat(dt)

\* "datetime.fromisoformat(x) if x else None" of _row_to_entry
DtOrNone(s) == IF s = NULL THEN None ELSE FromIso(s)

\* SQL text comparison a <= b (binary collation); NULL compares as unknown
SqlLe(a, b) ==
    /\ a # NULL
    /\ b # NULL
    /\ \/ a[1] < b[1]
       \/ /\ a[1] = b[1]
          /\ \/ Len(a) = 1
             \/ (Len(b) = 2 /\ a[2] <= b[2])

Epoch == <<0, 0>>

\* the values the next datetime.now() may return after the reading t: the same
\* value, or a later one.  The model explores microsecond drift between reads
\* (up to MaxDriftUs in all) in runs where no review interval has passed yet
After(t) ==
    {t} \cup (IF t[1] = Epoch[1] /\ t[2] < MaxDriftUs THEN {<<t[1], t[2] + 1>>} ELSE {})

\* the readings of n successive datetime.now() calls after the reading t
RECURSIVE ReadSeqs(_, _)
ReadSeqs(t, n) ==
    IF n = 0 THEN {<<>>}
    ELSE UNION {{<<u>> \o r : r \in ReadSeqs(u, n - 1)} : u \in After(t)}

\* the last reading of a sequence of clock reads (the clock itself if none)
LastRead(t, reads) == IF reads = <<>> THEN t ELSE reads[Len(reads)]

(***************************************************************************)
(* GrammarEntry (in memory) and the rows of grammar_entries (stored).      *)
(* The content payload is represented by the fields grammar and meaning;   *)
(* the other content columns are written and read back by the same         *)
(* statements.                                                             *)
(***************************************************************************)
\* GrammarEntry(...) as parse_grammar_file builds it from the fields of a line:
\* the dataclass defaults for every scheduling field
NewEntry(line, now) ==
    [id |-> 0, grammar |-> line.grammar, meaning |-> line.meaning,
     learned_date |-> now,
     srs_stage |-> "APPRENTICE_1", lesson_status |-> "NOT_STARTED",
     next_review |-> None, correct_answers |-> 0, incorrect_answers |-> 0,
     last_reviewed |-> None]

\* the column values add_entry / update_entry bind for an entry
ToRow(entry, id) ==
    [id |-> id, grammar |-> entry.grammar, meaning |-> entry.meaning,
     learned_date |-> IsoOrNull(entry.learned_date),
     srs_stage |-> StageValue(entry.srs_stage),
     next_review |-> IsoOrNull(entry.next_review),
     correct_answers |-> entry.correct_answers,
     incorrect_answers |-> entry.incorrect_answers,
     last_reviewed |-> IsoOrNull(entry.last_reviewed),
     lesson_status |-> StatusValue(entry.lesson_status)]

\* GrammarDatabase._row_to_entry: meaning is "row[4] or ''", lesson_status is
\* "row[16] if row[16] else 'In Progress'" (the table init_database leaves always
\* has the column)
RowToEntry(row) ==
    [id |-> row.id, grammar |-> row.grammar,
     meaning |-> IF row.meaning = NullText THEN "" ELSE row.meaning,
     learned_date |-> DtOrNone(row.learned_date),
     srs_stage |-> StageOf(row.srs_stage),
     lesson_status |-> StatusOf(IF row.lesson_status \in {NullText, ""}
                                THEN "In Progress" ELSE row.lesson_status),
     next_review |-> DtOrNone(row.next_review),
     correct_answers |-> row.correct_answers,
     incorrect_answers |-> row.incorrect_answers,
     last_reviewed |-> DtOrNone(row.last_reviewed)]

(***************************************************************************)
(* SRSManager.                                                             *)
(***************************************************************************)
\* get_next_stage with the bound of the index test off by one
get_next_stage_OffByOne(current_stage, correct) ==
    LET current_index == StageIndex(current_stage) IN
    IF correct
    THEN IF current_index < Len(SRSStage) - 2
         THEN SRSStage[(current_index + 1) + 1]
         ELSE current_stage
    ELSE "APPRENTICE_1"

\* SRSManager.get_next_stage
get_next_stage(current_stage, correct) ==
    LET current_index == StageIndex(current_stage) IN
    IF correct
    THEN IF current_index < Len(SRSStage) - 1
         THEN SRSStage[(current_index + 1) + 1]
         ELSE current_stage
    ELSE "APPRENTICE_1"

\* calculate_next_review without the BURNED test: BURNED scheduled like ENLIGHTENED
calculate_next_review_NoBurnedTest(stage, now) ==
    AddHours(now, INTERVALS(IF stage = "BURNED" THEN "ENLIGHTENED" ELSE stage))

\* calculate_next_review without the interval: the next review is now
calculate_next_review_NoInterval(stage, now) ==
    IF stage = "BURNED" THEN None ELSE now

\* SRSManager.calculate_next_review; now is what its datetime.now() returns
\* (not read at all for BURNED)
calculate_next_review(stage, now) ==
    IF stage = "BURNED" THEN None ELSE AddHours(now, INTERVALS(stage))

\* update_progress scheduling the next review from the stage before the outcome
update_progress_OldStage(entry, correct, now1, now2) ==
    LET e1 == [entry EXCEPT !.last_reviewed = now1]
        e2 == IF correct
              THEN [e1 EXCEPT !.correct_answers = @ + 1]
              ELSE [e1 EXCEPT !.incorrect_answers = @ + 1]
        e3 == IF e2.lesson_status = "AVAILABLE"
              THEN [e2 EXCEPT !.lesson_status = "IN_PROGRESS"]
              ELSE e2
        e4 == [e3 EXCEPT !.srs_stage = get_next_stage(e3.srs_stage, correct)]
    IN  [e4 EXCEPT !.next_review = calculate_next_review(e3.srs_stage, now2)]

\* update_progress without the AVAILABLE -> IN_PROGRESS transition
update_progress_NoTransition(entry, correct, now1, now2) ==
    LET e1 == [entry EXCEPT !.last_reviewed = now1]
        e2 == IF correct
              THEN [e1 EXCEPT !.correct_answers = @ + 1]
              ELSE [e1 EXCEPT !.incorrect_answers = @ + 1]
        e4 == [e2 EXCEPT !.srs_stage = get_next_stage(e2.srs_stage, correct)]
    IN  [e4 EXCEPT !.next_review = calculate_next_review(e4.srs_stage, now2)]

\* SRSManager.update_progress; now1 is the reading taken for last_reviewed,
\* now2 the later reading taken inside calculate_next_review
update_progress(entry, correct, now1, now2) ==
    LET e1 == [entry EXCEPT !.last_reviewed = now1]
        e2 == IF correct
              THEN [e1 EXCEPT !.correct_answers = @ + 1]
              ELSE [e1 EXCEPT !.incorrect_answers = @ + 1]
        e3 == IF e2.lesson_status = "AVAILABLE"
              THEN [e2 EXCEPT !.lesson_status = "IN_PROGRESS"]
              ELSE e2
        e4 == [e3 EXCEPT !.srs_stage = get_next_stage(e3.srs_stage, correct)]
    IN  [e4 EXCEPT !.next_review = calculate_next_review(e4.srs_stage, now2)]

\* the clock readings one update_progress call takes: two, or one when the
\* new stage is BURNED
ProgressReads(entry, correct, t) ==
    IF get_next_stage(entry.srs_stage, correct) = "BURNED"
    THEN {<<u, u>> : u \in After(t)}
    ELSE {<<r[1], r[2]>> : r \in ReadSeqs(t, 2)}

(***************************************************************************)
(* GrammarDatabase.  Each operator takes the table and returns the new     *)
(* table or the query result.                                              *)
(***************************************************************************)
\* add_entry giving out the largest id in use again
add_entry_ReusesId(tbl, entry) ==
    Append(tbl, ToRow(entry, IF tbl = <<>> THEN 1 ELSE Len(tbl)))

\* add_entry: INSERT; AUTOINCREMENT gives the next rowid (rows are never deleted)
add_entry(tbl, entry) == Append(tbl, ToRow(entry, Len(tbl) + 1))

\* update_entry that writes every column but the two counters
update_entry_KeepsCounters(tbl, entry) ==
    [i \in 1..Len(tbl) |->
        IF tbl[i].id = entry.id
        THEN [ToRow(entry, tbl[i].id) EXCEPT
                 !.correct_answers = tbl[i].correct_answers,
                 !.incorrect_answers = tbl[i].incorrect_answers]
        ELSE tbl[i]]

\* update_entry without its WHERE clause: every row takes the entry's values
update_entry_NoWhere(tbl, entry) ==
    [i \in 1..Len(tbl) |-> ToRow(entry, tbl[i].id)]

\* update_entry: UPDATE ... WHERE id=?; a statement that matches no row changes nothing
update_entry(tbl, entry) ==
    [i \in 1..Len(tbl) |-> IF tbl[i].id = entry.id THEN ToRow(entry, tbl[i].id) ELSE tbl[i]]

\* what update_entry raises: the UPDATE runs whether or not a row matches, its
\* row count is not read and the method has no raise, so it returns None; on a
\* file without the table (removed after the GrammarDatabase object was made)
\* execute raises sqlite3.OperationalError
update_entry_error(stbl, tbl, entry) ==
    IF HasTables(stbl) THEN "none" ELSE "OperationalError"

\* init_database, the rows part: UPDATE grammar_entries SET lesson_status =
\* 'In Progress' WHERE lesson_status IS NULL OR lesson_status = '' (a file whose
\* table lacks the column gets it with that default)
init_rows(tbl) ==
    [i \in 1..Len(tbl) |->
        IF tbl[i].lesson_status \in {NullText, ""}
        THEN [tbl[i] EXCEPT !.lesson_status = "In Progress"]
        ELSE tbl[i]]

\* cursor.fetchall() mapped through _row_to_entry (rows come in id order)
RowsToEntries(sel) == [i \in 1..Len(sel) |-> RowToEntry(sel[i])]

\* get_all_entries: SELECT * ... ORDER BY id
get_all_entries(tbl) == RowsToEntries(tbl)

\* get_entries_by_lesson_status: WHERE lesson_status = ? ORDER BY id
get_entries_by_lesson_status(tbl, status) ==
    RowsToEntries(SelectSeq(tbl, LAMBDA r : r.lesson_status = StatusValue(status)))

\* the WHERE clause of get_due_reviews without the comparison with now
DueRow_NoTimeTest(r, now) == r.srs_stage # "Burned"

\* the WHERE clause of get_due_reviews leaving out Enlightened rows as well
DueRow_SkipsEnlightened(r, now) ==
    /\ SqlLe(r.next_review, IsoFormat(now))
    /\ r.srs_stage \notin {"Burned", "Enlightened"}

\* the WHERE clause of get_due_reviews; now is datetime.now()
DueRow(r, now) == SqlLe(r.next_review, IsoFormat(now)) /\ r.srs_stage # "Burned"

\* insert an entry into a list sorted by stored next_review text (ties keep id order)
RECURSIVE InsertByReview(_, _)
InsertByReview(sorted, e) ==
    IF sorted = <<>> THEN <<e>>
    ELSE IF SqlLe(IsoOrNull(Head(sorted).next_review), IsoOrNull(e.next_review))
         THEN <<Head(sorted)>> \o InsertByReview(Tail(sorted), e)
         ELSE <<e>> \o sorted

\* the query without ORDER BY next_review: rows come in id order
SortByReview_ById(es) == es

RECURSIVE SortByReview(_)
SortByReview(es) ==
    IF es = <<>> THEN <<>>
    ELSE InsertByReview(SortByReview(SubSeq(es, 1, Len(es) - 1)), es[Len(es)])

\* get_due_reviews: WHERE next_review <= ? AND srs_stage != 'Burned' ORDER BY next_review
get_due_reviews(tbl, now) ==
    SortByReview(RowsToEntries(SelectSeq(tbl, LAMBDA r : DueRow(r, now))))

\* the SELECT without its LIMIT
SqlLimit_NoLimit(es, n) == es

\* SQL LIMIT n: a negative n means no limit
SqlLimit(es, n) == IF n < 0 \/ n >= Len(es) THEN es ELSE SubSeq(es, 1, n)

\* the SELECT of start_lessons without its WHERE clause
LessonCandidates_NoWhere(tbl, limit) == SqlLimit(get_all_entries(tbl), limit)

\* start_lessons, the SELECT: WHERE lesson_status = 'Not Started' ORDER BY id LIMIT ?
LessonCandidates(tbl, limit) ==
    SqlLimit(get_entries_by_lesson_status(tbl, "NOT_STARTED"), limit)

\* start_lessons marking the entry In Progress instead of Available
StartLesson_InProgress(entry, now) ==
    [entry EXCEPT !.lesson_status = "IN_PROGRESS", !.next_review = now]

\* start_lessons, the loop body for one entry; now is its datetime.now()
StartLesson(entry, now) ==
    [entry EXCEPT !.lesson_status = "AVAILABLE", !.next_review = now]

\* start_lessons, the returned list; reads[i] is the clock reading of iteration i
start_lessons_ret(tbl, limit, reads) ==
    LET entries == LessonCandidates(tbl, limit) IN
    [i \in 1..Len(entries) |-> StartLesson(entries[i], reads[i])]

\* update_entry applied to each entry of a list in turn
RECURSIVE UpdateAll(_, _)
UpdateAll(tbl, es) ==
    IF es = <<>> THEN tbl ELSE UpdateAll(update_entry(tbl, Head(es)), Tail(es))

\* start_lessons, the table it leaves
start_lessons_tbl(tbl, limit, reads) == UpdateAll(tbl, start_lessons_ret(tbl, limit, reads))

\* get_lesson_summary, the query: SELECT lesson_status, COUNT(*) ... GROUP BY lesson_status
GroupByStatus(tbl) ==
    {<<v, Cardinality({i \in 1..Len(tbl) : tbl[i].lesson_status = v})>> :
        v \in {tbl[i].lesson_status : i \in 1..Len(tbl)}}

\* get_lesson_summary that reports only the groups the query returns
get_lesson_summary_NoDefaults(tbl) ==
    LET groups == GroupByStatus(tbl) IN
    [v \in {g[1] : g \in groups} |-> (CHOOSE g \in groups : g[1] = v)[2]]

\* get_lesson_summary: every LessonStatus value starts at 0, then each group of
\* the query sets summary[status] = count
get_lesson_summary(tbl) ==
    LET groups == GroupByStatus(tbl) IN
    [v \in {StatusValue(m) : m \in StatusSet} \cup {g[1] : g \in groups} |->
        IF \E g \in groups : g[1] = v
        THEN (CHOOSE g \in groups : g[1] = v)[2]
        ELSE 0]

(***************************************************************************)
(* Settings.  A stored value is text; a number is the tuple of its decimal *)
(* digits, so that str() and int() are conversions.                        *)
(***************************************************************************)
DefaultLimit == 15      \* init_database: daily_lesson_limit '15'
SpinboxMin == 1         \* lesson_limit_spinbox.setMinimum
SpinboxMax == 50        \* lesson_limit_spinbox.setMaximum

\* str(n) for n >= 0
RECURSIVE StrOfInt(_)
StrOfInt(n) == IF n < 10 THEN <<n>> ELSE StrOfInt(n \div 10) \o <<n % 10>>

\* int(s) for a string of digits
RECURSIVE IntOfStr(_)
IntOfStr(s) ==
    IF Len(s) = 1 THEN s[1]
    ELSE 10 * IntOfStr(SubSeq(s, 1, Len(s) - 1)) + s[Len(s)]

\* get_setting: the stored value, or the default when the key has no row
get_setting(tbl, key, default) == IF key \in DOMAIN tbl THEN tbl[key] ELSE default

\* set_setting: INSERT OR REPLACE
set_setting(tbl, key, value) ==
    [k \in (DOMAIN tbl) \cup {key} |-> IF k = key THEN value ELSE tbl[k]]

\* init_database writing its defaults with INSERT OR REPLACE
init_settings_Replace(tbl) ==
    set_setting(set_setting(tbl, "daily_lesson_limit", StrOfInt(DefaultLimit)),
                "auto_start_lessons", "true")

\* init_database, the settings part: INSERT OR IGNORE of the two defaults
init_settings(tbl) ==
    LET t1 == IF "daily_lesson_limit" \in DOMAIN tbl THEN tbl
              ELSE set_setting(tbl, "daily_lesson_limit", StrOfInt(DefaultLimit))
    IN  IF "auto_start_lessons" \in DOMAIN t1 THEN t1
        ELSE set_setting(t1, "auto_start_lessons", "true")

\* the limit taken from the default instead of the stored setting
DailyLimit_Default(tbl) == DefaultLimit

\* int(self.db.get_setting("daily_lesson_limit", "15"))
DailyLimit(tbl) == IntOfStr(get_setting(tbl, "daily_lesson_limit", StrOfInt(DefaultLimit)))

\* the auto-start test ignoring the stored setting
AutoStart_Always(tbl) == TRUE

\* self.db.get_setting("auto_start_lessons", "true") == "true"
AutoStart(tbl) == get_setting(tbl, "auto_start_lessons", "true") = "true"

\* SettingsWidget.save_settings
save_settings(tbl, limit, checked) ==
    set_setting(set_setting(tbl, "daily_lesson_limit", StrOfInt(limit)),
                "auto_start_lessons", IF checked THEN "true" ELSE "false")

\* the spinbox values the model explores
Limits == {n \in (1..MaxLimit) \cup {DefaultLimit} : SpinboxMin <= n /\ n <= SpinboxMax}

Min(a, b) == IF a <= b THEN a ELSE b

(***************************************************************************)
(* The state after construction.  grammar.db persists between runs: the    *)
(* table is empty (first run) or holds what an earlier run left, here one  *)
(* entry that was answered correctly seven times in a row, stored by a     *)
(* version that left lesson_status empty; init_database has run on it.     *)
(***************************************************************************)
SeedEntry ==
    [id |-> 1, grammar |-> "g1", meaning |-> "m1", learned_date |-> Epoch,
     srs_stage |-> "ENLIGHTENED", lesson_status |-> "IN_PROGRESS",
     next_review |-> calculate_next_review("ENLIGHTENED", Epoch),
     correct_answers |-> StageIndex("ENLIGHTENED"), incorrect_answers |-> 0,
     last_reviewed |-> Epoch]

\* the files found at start
SeedStores == {<<>>, <<[ToRow(SeedEntry, 1) EXCEPT !.lesson_status = ""]>>}

\* what a handler leaves in started when it calls start_lessons(limit) on the table
\* tbl at clock reading at: the arguments and the returned list
Started(tbl, limit, at, reads) ==
    <<[limit |-> limit, before |-> tbl, at |-> at,
       ret |-> start_lessons_ret(tbl, limit, reads)]>>

\* what a script leaves in updated when it calls db.update_entry(entry) on the
\* tables stbl (settings) and tbl (grammar_entries)
Updated(stbl, tbl, entry) ==
    <<[id |-> entry.id, before |-> tbl, error |-> update_entry_error(stbl, tbl, entry)]>>

\* what a handler leaves in recorded when it calls update_progress(entry, correct)
Recorded(entry, correct) == <<[before |-> entry, correct |-> correct]>>

\* the hours for which a stored outcome is remembered: the first review interval
OutcomeWindow == INTERVALS("APPRENTICE_1")

\* last_outcome in the runs that keep no history of outcomes
NotKept == <<>>

\* no outcome remembered for any row
NoOutcomes == [id \in 1..MaxItems |-> <<>>]

\* what handle_review_completed leaves in last_outcome for the row it stored:
\* the clock reading at which the outcome was stored; reset tells whether
\* reset_all_progress has run since
Outcome(at) == <<[at |-> at, reset |-> FALSE]>>

\* last_outcome after handle_review_completed has stored an outcome for row id
AfterOutcome(outcomes, id, at) ==
    IF outcomes = NotKept THEN NotKept ELSE [outcomes EXCEPT ![id] = Outcome(at)]

\* last_outcome after reset_all_progress
AfterReset(outcomes) ==
    IF outcomes = NotKept THEN NotKept
    ELSE [id \in 1..MaxItems |->
            IF outcomes[id] = <<>> THEN <<>>
            ELSE <<[outcomes[id][1] EXCEPT !.reset = TRUE]>>]

\* last_outcome after make_all_due, and after the file is removed: the outcomes
\* remembered are those with no make_all_due since
Forgotten(outcomes) == IF outcomes = NotKept THEN NotKept ELSE NoOutcomes

\* last_outcome when the clock has reached now: an outcome is forgotten once
\* OutcomeWindow hours have passed since it was stored
Remembered(outcomes, now) ==
    IF outcomes = NotKept THEN NotKept
    ELSE [id \in 1..MaxItems |->
            IF outcomes[id] # <<>> /\ DtLe(AddHours(outcomes[id][1].at, OutcomeWindow), now)
            THEN <<>>
            ELSE outcomes[id]]

\* the application after construction
InitApp ==
    /\ rows \in {init_rows(file) : file \in SeedStores}
    /\ settings = init_settings(NoSettings)
    /\ lesson_limit_spinbox = DailyLimit(settings)
    /\ auto_start_checkbox = AutoStart(settings)
    /\ current_reviews = <<>>
    /\ current_review_index = 0
    /\ clock = Epoch
    /\ started = <<>>
    /\ promoted = {}
    /\ answered = 0
    /\ recorded = <<>>
    /\ retrieved_entry = <<>>
    /\ updated = <<>>
    /\ entry_id = 0
    /\ dialog = <<>>

Init == InitApp /\ last_outcome = NotKept

Ids(es) == {es[i].id : i \in 1..Len(es)}

(***************************************************************************)
(* The handlers of the application.  A handler that asks a question or     *)
(* reports "Session Complete" waits in a modal QMessageBox: it is one step *)
(* up to the box and one from the reply, and the variable dialog holds the *)
(* box in between.  The other handlers show their boxes first or last.     *)
(***************************************************************************)
\* time passes: one review interval of some stage (explored in runs whose clock
\* reads have not drifted)
AdvanceClock(stage) ==
    /\ stage # "BURNED"
    /\ clock[2] = Epoch[2]
    /\ AddHours(clock, INTERVALS(stage))[1] <= MaxClockHours * 3600
    /\ clock' = AddHours(clock, INTERVALS(stage))
    /\ recorded' = <<>>
    /\ last_outcome' = Remembered(last_outcome, clock')
    /\ started' = <<>>
    /\ UNCHANGED <<rows, settings, lesson_limit_spinbox, auto_start_checkbox,
                   current_reviews, current_review_index, promoted, answered,
                   retrieved_entry, entry_id, dialog>>
    /\ updated' = <<>>

\* the spinbox is changed: valueChanged -> save_settings
SetLessonLimit(v) ==
    /\ dialog = <<>>
    /\ v # lesson_limit_spinbox
    /\ lesson_limit_spinbox' = v
    /\ settings' = save_settings(settings, v, auto_start_checkbox)
    /\ recorded' = <<>>
    /\ UNCHANGED last_outcome
    /\ started' = <<>>
    /\ UNCHANGED <<rows, auto_start_checkbox, current_reviews, current_review_index, clock,
                   promoted, answered, retrieved_entry, entry_id, dialog>>
    /\ updated' = <<>>

\* the checkbox is toggled: stateChanged -> save_settings
ToggleAutoStart ==
    /\ dialog = <<>>
    /\ auto_start_checkbox' = ~auto_start_checkbox
    /\ settings' = save_settings(settings, lesson_limit_spinbox, ~auto_start_checkbox)
    /\ recorded' = <<>>
    /\ UNCHANGED last_outcome
    /\ started' = <<>>
    /\ UNCHANGED <<rows, lesson_limit_spinbox, current_reviews, current_review_index,
                   clock, promoted, answered, retrieved_entry, entry_id, dialog>>
    /\ updated' = <<>>

\* parse_grammar_file: one add_entry per parsed line; reads[i] is learned_date of line i
RECURSIVE AddAll(_, _, _)
AddAll(tbl, file, reads) ==
    IF file = <<>> THEN tbl
    ELSE AddAll(add_entry(tbl, NewEntry(Head(file), Head(reads))), Tail(file), Tail(reads))

\* the lines of the files the model imports, each as the fields
\* parse_grammar_file takes from it: grammar is the text before the tab, meaning
\* the second of the fields after it or '' when the line has one field only
\* ("g1<tab>usage  m1" and "g2<tab>usage")
FileLines == <<[grammar |-> "g1", meaning |-> "m1"], [grammar |-> "g2", meaning |-> ""]>>
LineSet == {FileLines[i] : i \in 1..Len(FileLines)}

\* the files of up to MaxImport well-formed lines
Files == UNION {[1..n -> LineSet] : n \in 0..MaxImport}

\* JustRememberApp.import_grammar_file; file holds the fields of each parsed line,
\* dates are the readings taken for learned_date
ImportGrammarFile(file) ==
    /\ dialog = <<>>
    /\ Len(rows) + Len(file) <= MaxItems
    /\ \E dates \in ReadSeqs(clock, Len(file)) :
        LET tbl1 == AddAll(rows, file, dates)
            not_started == get_entries_by_lesson_status(tbl1, "NOT_STARTED")
            auto == AutoStart(settings) /\ not_started # <<>>
            limit == Min(DailyLimit(settings), Len(not_started))
            n == IF auto THEN Len(LessonCandidates(tbl1, limit)) ELSE 0
        IN  \E reads \in ReadSeqs(LastRead(clock, dates), n) :
            /\ rows' = IF auto THEN start_lessons_tbl(tbl1, limit, reads) ELSE tbl1
            /\ started' = IF auto THEN Started(tbl1, limit, LastRead(clock, dates), reads)
                          ELSE <<>>
            /\ promoted' = IF auto
                           THEN promoted \cup Ids(start_lessons_ret(tbl1, limit, reads))
                           ELSE promoted
            /\ clock' = LastRead(LastRead(clock, dates), reads)
            /\ recorded' = <<>>
            /\ UNCHANGED last_outcome
    /\ UNCHANGED <<settings, lesson_limit_spinbox, auto_start_checkbox, current_reviews,
                   current_review_index, answered, retrieved_entry, entry_id, dialog>>
    /\ updated' = <<>>

\* the modal QMessageBox a handler waits in: its title and, for "No Reviews Due",
\* the length of the list not_started the handler read before it opened the box.
\* While the box is open the widgets of the application take no input and time
\* passes
Box(title, n) == <<[box |-> title, not_started |-> n]>>

\* self.db.start_lessons(limit) called by a handler at the reading clock
StartLessonsCall(limit) ==
    \E reads \in ReadSeqs(clock, Len(LessonCandidates(rows, limit))) :
        /\ rows' = start_lessons_tbl(rows, limit, reads)
        /\ started' = Started(rows, limit, clock, reads)
        /\ promoted' = promoted \cup Ids(start_lessons_ret(rows, limit, reads))
        /\ clock' = LastRead(clock, reads)

\* SettingsWidget.start_lessons, from the click: with an Available entry the
\* handler opens "Lessons Already Available ... Start more?" and waits for the
\* reply; with none it calls start_lessons at once.  (Without a Not Started
\* entry it only reports "No New Items".)
SettingsStartLessons ==
    /\ dialog = <<>>
    /\ \E not_started \in {get_entries_by_lesson_status(rows, "NOT_STARTED")} :
       \E available_count \in {Len(get_entries_by_lesson_status(rows, "AVAILABLE"))} :
        /\ not_started # <<>>
        /\ IF available_count > 0
           THEN /\ dialog' = Box("Lessons Already Available", 0)
                /\ started' = <<>>
                /\ UNCHANGED <<rows, promoted, clock>>
           ELSE /\ dialog' = <<>>
                /\ StartLessonsCall(lesson_limit_spinbox)
    /\ recorded' = <<>>
    /\ UNCHANGED last_outcome
    /\ UNCHANGED <<settings, lesson_limit_spinbox, auto_start_checkbox,
                   current_reviews, current_review_index, answered, retrieved_entry,
                   entry_id>>
    /\ updated' = <<>>

\* SettingsWidget.start_lessons, from the reply to "Lessons Already Available":
\* No returns; Yes calls start_lessons with the limit, whatever the table holds
\* by now
SettingsStartLessonsReply(reply) ==
    /\ dialog = Box("Lessons Already Available", 0)
    /\ dialog' = <<>>
    /\ IF reply
       THEN StartLessonsCall(lesson_limit_spinbox)
       ELSE /\ started' = <<>>
            /\ UNCHANGED <<rows, promoted, clock>>
    /\ recorded' = <<>>
    /\ UNCHANGED last_outcome
    /\ UNCHANGED <<settings, lesson_limit_spinbox, auto_start_checkbox,
                   current_reviews, current_review_index, answered, retrieved_entry,
                   entry_id>>
    /\ updated' = <<>>

\* reset_all_progress leaving next_review as it was
ResetEntry_KeepsReview(entry) ==
    [entry EXCEPT !.lesson_status = "NOT_STARTED", !.srs_stage = "APPRENTICE_1",
                  !.correct_answers = 0, !.incorrect_answers = 0,
                  !.last_reviewed = None]

\* reset_all_progress leaving the counters as they were
ResetEntry_KeepsCounters(entry) ==
    [entry EXCEPT !.lesson_status = "NOT_STARTED", !.srs_stage = "APPRENTICE_1",
                  !.next_review = None, !.last_reviewed = None]

\* reset_all_progress clearing learned_date as well
ResetEntry_ClearsDate(entry) ==
    [entry EXCEPT !.lesson_status = "NOT_STARTED", !.srs_stage = "APPRENTICE_1",
                  !.next_review = None, !.correct_answers = 0,
                  !.incorrect_answers = 0, !.last_reviewed = None,
                  !.learned_date = None]

\* SettingsWidget.reset_all_progress, the loop body for one entry
ResetEntry(entry) ==
    [entry EXCEPT !.lesson_status = "NOT_STARTED", !.srs_stage = "APPRENTICE_1",
                  !.next_review = None, !.correct_answers = 0,
                  !.incorrect_answers = 0, !.last_reviewed = None]

\* SettingsWidget.reset_all_progress, answered Yes
ResetAllProgress ==
    LET all_entries == get_all_entries(rows) IN
    /\ dialog = <<>>
    /\ rows' = UpdateAll(rows, [i \in 1..Len(all_entries) |-> ResetEntry(all_entries[i])])
    /\ promoted' = {}
    /\ recorded' = <<>>
    /\ last_outcome' = AfterReset(last_outcome)
    /\ started' = <<>>
    /\ UNCHANGED <<settings, lesson_limit_spinbox, auto_start_checkbox, current_reviews,
                   current_review_index, clock, answered, retrieved_entry, entry_id, dialog>>
    /\ updated' = <<>>

\* random.shuffle replaced by sampling with replacement: one entry repeated
Shuffle_Repeat(es, perm) == [i \in 1..Len(es) |-> es[perm[1]]]

\* random.shuffle: the list in the order perm
Shuffle(es, perm) == [i \in 1..Len(es) |-> es[perm[i]]]

\* the orders random.shuffle may produce for a list of n elements
Perms(n) == {f \in [1..n -> 1..n] : \A i, j \in 1..n : f[i] = f[j] => i = j}

\* start_review_session, the filter on lesson_status
Reviewable(es) ==
    SelectSeq(es, LAMBDA e : e.lesson_status \in {"AVAILABLE", "IN_PROGRESS"})

\* JustRememberApp.start_review_session, from the click: now is the reading of
\* get_due_reviews, perm is the order random.shuffle produces.  current_reviews
\* is assigned the filtered list first; when it is empty the handler reads the
\* Not Started entries and, if there are any, opens "No Reviews Due ... Start
\* lessons?" and waits for the reply, else it reports "No Reviews" and returns.
\* The lists the handler holds in local variables are bound once, by \E over a
\* singleton
StartReviewSession ==
    /\ dialog = <<>>
    /\ \E now \in After(clock) :
       \E due \in {Reviewable(get_due_reviews(rows, now))} :
       \E not_started \in {get_entries_by_lesson_status(rows, "NOT_STARTED")} :
            /\ IF due # <<>>
               THEN /\ \E perm \in Perms(Len(due)) : current_reviews' = Shuffle(due, perm)
                    /\ current_review_index' = 0
                    /\ dialog' = <<>>
               ELSE /\ current_reviews' = <<>>
                    /\ UNCHANGED current_review_index
                    /\ dialog' = IF not_started # <<>>
                                 THEN Box("No Reviews Due", Len(not_started))
                                 ELSE <<>>
            /\ clock' = now
    /\ started' = <<>>
    /\ recorded' = <<>>
    /\ UNCHANGED last_outcome
    /\ UNCHANGED <<rows, settings, lesson_limit_spinbox, auto_start_checkbox, promoted,
                   answered, retrieved_entry, entry_id>>
    /\ updated' = <<>>

\* JustRememberApp.start_review_session, from the reply to "No Reviews Due": No
\* returns; Yes calls start_lessons(min(limit, len(not_started))) with the list
\* read before the box opened, makes the returned list the session, shuffles it,
\* sets the cursor to 0 and calls show_current_review, which opens "Session
\* Complete" when the list is empty
StartReviewSessionReply(reply) ==
    /\ dialog # <<>>
    /\ dialog[1].box = "No Reviews Due"
    /\ IF reply
       THEN \E limit \in {Min(DailyLimit(settings), dialog[1].not_started)} :
            \E reads \in ReadSeqs(clock, Len(LessonCandidates(rows, limit))) :
            \E reviews \in {start_lessons_ret(rows, limit, reads)} :
                /\ rows' = start_lessons_tbl(rows, limit, reads)
                /\ started' = Started(rows, limit, clock, reads)
                /\ promoted' = promoted \cup Ids(reviews)
                /\ clock' = LastRead(clock, reads)
                /\ \E perm \in Perms(Len(reviews)) : current_reviews' = Shuffle(reviews, perm)
                /\ current_review_index' = 0
                /\ dialog' = IF reviews # <<>> THEN <<>> ELSE Box("Session Complete", 0)
       ELSE /\ dialog' = <<>>
            /\ started' = <<>>
            /\ UNCHANGED <<rows, promoted, clock, current_reviews, current_review_index>>
    /\ recorded' = <<>>
    /\ UNCHANGED last_outcome
    /\ UNCHANGED <<settings, lesson_limit_spinbox, auto_start_checkbox, answered,
                   retrieved_entry, entry_id>>
    /\ updated' = <<>>

\* ReviewWidget.check_answer / next_question: the values the signal
\* review_completed may carry for the entry shown, that is the values
\* check_answer may leave in last_answer_correct.  _prepare_acceptable_answers
\* returns the empty list for an entry whose meaning is '', the best score then
\* stays 0 and the answer is never correct; for an entry with a meaning the
\* list holds the meaning, which typed as it is scores 100 (correct), while a
\* text that shares no character with any acceptable answer scores 0
Outcomes(entry) == IF entry.meaning = "" THEN {FALSE} ELSE BOOLEAN

\* JustRememberApp.handle_review_completed followed by show_current_review, up to
\* the point where the handler returns or waits: update_progress changes the
\* entry of the session in place, update_entry stores it, the cursor moves on,
\* and behind the last entry show_current_review opens "Session Complete".
\* reads are the readings of update_progress; max is the number of outcomes the
\* run explores.  The signal carries the outcome check_answer found for the
\* entry at the cursor, which is the entry the review widget shows
ReviewCompleted(correct, max) ==
    /\ dialog = <<>>
    /\ current_review_index < Len(current_reviews)
    /\ correct \in Outcomes(current_reviews[current_review_index + 1])
    /\ answered < max
    /\ LET entry == current_reviews[current_review_index + 1]
           index == current_review_index + 1
       IN  /\ \E reads \in ProgressReads(entry, correct, clock) :
                LET updated_entry == update_progress(entry, correct, reads[1], reads[2])
                IN  /\ rows' = update_entry(rows, updated_entry)
                    /\ current_reviews' = [current_reviews EXCEPT ![index] = updated_entry]
                    /\ clock' = reads[2]
                    /\ last_outcome' = AfterOutcome(last_outcome, entry.id, reads[2])
           /\ current_review_index' = index
           /\ dialog' = IF index < Len(current_reviews) THEN <<>>
                        ELSE Box("Session Complete", 0)
           /\ recorded' = Recorded(entry, correct)
    /\ answered' = answered + 1
    /\ started' = <<>>
    /\ UNCHANGED <<settings, lesson_limit_spinbox, auto_start_checkbox, promoted,
                   retrieved_entry, entry_id>>
    /\ updated' = <<>>

\* show_current_review, from the moment "Session Complete" is closed: the
\* session is cleared and the cursor set to 0
SessionCompleteClosed ==
    /\ dialog = Box("Session Complete", 0)
    /\ current_reviews' = <<>>
    /\ current_review_index' = 0
    /\ dialog' = <<>>
    /\ recorded' = <<>>
    /\ UNCHANGED last_outcome
    /\ started' = <<>>
    /\ UNCHANGED <<rows, settings, lesson_limit_spinbox, auto_start_checkbox, clock,
                   promoted, answered, retrieved_entry, entry_id>>
    /\ updated' = <<>>

\* the review_completed signal of the review widget
HandleReviewCompleted(correct) == ReviewCompleted(correct, MaxAnswers)

\* the condition of make_all_due without the test of lesson_status
MakeDueApplies_NoStatusTest(entry) == entry.srs_stage # "BURNED"

\* make_all_due, the condition of the loop body
MakeDueApplies(entry) ==
    /\ entry.lesson_status \in {"AVAILABLE", "IN_PROGRESS"}
    /\ entry.srs_stage # "BURNED"

\* make_all_due, the entries it updates; reads[i] is the reading for the i-th of them
MadeDue(tbl, reads) ==
    LET hit == SelectSeq(get_all_entries(tbl), MakeDueApplies) IN
    [i \in 1..Len(hit) |-> [hit[i] EXCEPT !.next_review = reads[i]]]

\* JustRememberApp.make_all_due
MakeAllDue ==
    /\ dialog = <<>>
    /\ rows # <<>>
    /\ \E reads \in ReadSeqs(clock, Len(SelectSeq(get_all_entries(rows), MakeDueApplies))) :
        /\ rows' = UpdateAll(rows, MadeDue(rows, reads))
        /\ clock' = LastRead(clock, reads)
    /\ recorded' = <<>>
    /\ last_outcome' = Forgotten(last_outcome)
    /\ started' = <<>>
    /\ UNCHANGED <<settings, lesson_limit_spinbox, auto_start_checkbox, current_reviews,
                   current_review_index, promoted, answered, retrieved_entry, entry_id, dialog>>
    /\ updated' = <<>>

Next ==
    \/ \E stage \in StageSet : AdvanceClock(stage)
    \/ \E v \in Limits : SetLessonLimit(v)
    \/ ToggleAutoStart
    \/ \E file \in Files : ImportGrammarFile(file)
    \/ SettingsStartLessons
    \/ \E reply \in BOOLEAN : SettingsStartLessonsReply(reply)
    \/ ResetAllProgress
    \/ StartReviewSession
    \/ \E reply \in BOOLEAN : StartReviewSessionReply(reply)
    \/ \E correct \in BOOLEAN : HandleReviewCompleted(correct)
    \/ SessionCompleteClosed
    \/ MakeAllDue

Spec == Init /\ [][Next]_vars

\* the application, with the history of stored outcomes kept in last_outcome
InitHistory == InitApp /\ last_outcome = NoOutcomes

SpecHistory == InitHistory /\ [][Next]_vars

(***************************************************************************)
(* The application driven by code that also calls the lesson gate of its   *)
(* database object directly: db.start_lessons(limit) with any positive     *)
(* limit, whether or not a row is Not Started.  The calls are made from    *)
(* the thread the handlers run in, between two handlers, so no modal box   *)
(* is open and a call runs to its end before the next handler starts.      *)
(* The settings tab is used for the auto-start box and the reset only, so  *)
(* rows become Available through the import, the direct calls and the      *)
(* lessons path of start_review_session.                                   *)
(***************************************************************************)
GateLimits == 1..MaxItems

\* db.start_lessons(limit)
DbStartLessons(limit) ==
    /\ dialog = <<>>
    /\ \E reads \in ReadSeqs(clock, Len(LessonCandidates(rows, limit))) :
        /\ rows' = start_lessons_tbl(rows, limit, reads)
        /\ started' = Started(rows, limit, clock, reads)
        /\ promoted' = promoted \cup Ids(start_lessons_ret(rows, limit, reads))
        /\ clock' = LastRead(clock, reads)
    /\ recorded' = <<>>
    /\ UNCHANGED last_outcome
    /\ UNCHANGED <<settings, lesson_limit_spinbox, auto_start_checkbox, current_reviews,
                   current_review_index, answered, retrieved_entry, entry_id, dialog>>
    /\ updated' = <<>>

NextGate ==
    \/ \E limit \in GateLimits : DbStartLessons(limit)
    \/ \E stage \in StageSet : AdvanceClock(stage)
    \/ ToggleAutoStart
    \/ \E file \in Files : ImportGrammarFile(file)
    \/ ResetAllProgress
    \/ StartReviewSession
    \/ \E reply \in BOOLEAN : StartReviewSessionReply(reply)
    \/ \E correct \in BOOLEAN : HandleReviewCompleted(correct)
    \/ SessionCompleteClosed

SpecGate == Init /\ [][NextGate]_vars

(***************************************************************************)
(* The store used directly, as test_models.py does: one entry is created   *)
(* with add_entry, read back with get_entry, handed to update_progress,    *)
(* and may be written back with update_entry; a grammar file may be        *)
(* parsed into the table, and the file is removed at the end of the run.   *)
(***************************************************************************)
\* get_entry: SELECT * ... WHERE id=?; <<>> stands for None
get_entry(tbl, id) ==
    IF \E i \in 1..Len(tbl) : tbl[i].id = id
    THEN <<RowToEntry(tbl[CHOOSE i \in 1..Len(tbl) : tbl[i].id = id])>>
    ELSE <<>>

\* the entries the script creates: GrammarEntry(...) with any stage and status,
\* counters 0 or MaxCount, learned_date the reading now1 and next_review None or
\* calculate_next_review(APPRENTICE_1), which reads the clock again (now2)
EntryInputs(now1, now2) ==
    {[id |-> 0, grammar |-> "g1", meaning |-> "m1", learned_date |-> now1,
      srs_stage |-> st, lesson_status |-> ls, next_review |-> nr,
      correct_answers |-> c, incorrect_answers |-> w, last_reviewed |-> None] :
        st \in StageSet, ls \in StatusSet,
        nr \in {None, calculate_next_review("APPRENTICE_1", now2)},
        c \in {0, MaxCount}, w \in {0, MaxCount}}

\* test_models.py, a run up to line 35: db = GrammarDatabase("test_grammar.db")
\* (init_database on the file as it is: rows and settings); entry =
\* GrammarEntry(...); entry_id = db.add_entry(entry)
ScriptAddEntry ==
    /\ entry_id = 0
    /\ Len(rows) < MaxItems
    /\ \E now1 \in After(clock) : \E now2 \in After(now1) :
       \E entry \in EntryInputs(now1, now2) :
        /\ rows' = add_entry(init_rows(rows), entry)
        /\ entry_id' = Len(rows) + 1
        /\ clock' = IF entry.next_review = None THEN now1 ELSE now2
    /\ settings' = init_settings(settings)
    /\ recorded' = <<>>
    /\ UNCHANGED last_outcome
    /\ started' = <<>>
    /\ UNCHANGED <<lesson_limit_spinbox, auto_start_checkbox, current_reviews,
                   current_review_index, promoted, answered, retrieved_entry, dialog>>
    /\ updated' = <<>>

\* test_models.py line 39: retrieved_entry = db.get_entry(entry_id)
ScriptGetEntry ==
    /\ entry_id # 0
    /\ retrieved_entry = <<>>
    /\ retrieved_entry' = get_entry(rows, entry_id)
    /\ recorded' = <<>>
    /\ UNCHANGED last_outcome
    /\ started' = <<>>
    /\ UNCHANGED <<rows, settings, lesson_limit_spinbox, auto_start_checkbox,
                   current_reviews, current_review_index, clock, promoted, answered,
                   entry_id, dialog>>
    /\ updated' = <<>>

\* test_models.py lines 55-59, when the grammar file exists:
\* parse_grammar_file(grammar_file, db); file holds the fields of each parsed
\* line, dates are the readings taken for learned_date
ScriptParseGrammarFile(file) ==
    /\ entry_id # 0
    /\ Len(rows) + Len(file) <= MaxItems
    /\ \E dates \in ReadSeqs(clock, Len(file)) :
        /\ rows' = AddAll(rows, file, dates)
        /\ clock' = LastRead(clock, dates)
    /\ recorded' = <<>>
    /\ UNCHANGED last_outcome
    /\ started' = <<>>
    /\ UNCHANGED <<settings, lesson_limit_spinbox, auto_start_checkbox, current_reviews,
                   current_review_index, promoted, answered, retrieved_entry, entry_id,
                   dialog>>
    /\ updated' = <<>>

\* test_models.py lines 81-82: os.remove("test_grammar.db") ends the run; the
\* file goes with both tables, the next run starts on a new one
ScriptCleanUp ==
    /\ entry_id # 0
    /\ rows' = <<>>
    /\ settings' = NoSettings
    /\ entry_id' = 0
    /\ retrieved_entry' = <<>>
    /\ promoted' = {}
    /\ recorded' = <<>>
    /\ last_outcome' = Forgotten(last_outcome)
    /\ started' = <<>>
    /\ UNCHANGED <<lesson_limit_spinbox, auto_start_checkbox, current_reviews,
                   current_review_index, clock, answered, dialog>>
    /\ updated' = <<>>

\* test_models.py: updated_entry = SRSManager.update_progress(retrieved_entry, correct)
\* (the entry is changed in place and not stored)
ScriptUpdateProgress(correct) ==
    /\ retrieved_entry # <<>>
    /\ answered < MaxAnswers
    /\ \E reads \in ProgressReads(retrieved_entry[1], correct, clock) :
        /\ retrieved_entry' =
              <<update_progress(retrieved_entry[1], correct, reads[1], reads[2])>>
        /\ clock' = reads[2]
    /\ recorded' = Recorded(retrieved_entry[1], correct)
    /\ UNCHANGED last_outcome
    /\ answered' = answered + 1
    /\ started' = <<>>
    /\ UNCHANGED <<rows, settings, lesson_limit_spinbox, auto_start_checkbox,
                   current_reviews, current_review_index, promoted, entry_id, dialog>>
    /\ updated' = <<>>

\* db.update_entry(updated_entry)
ScriptUpdateEntry ==
    /\ retrieved_entry # <<>>
    /\ rows' = update_entry(rows, retrieved_entry[1])
    /\ updated' = Updated(settings, rows, retrieved_entry[1])
    /\ recorded' = <<>>
    /\ UNCHANGED last_outcome
    /\ started' = <<>>
    /\ UNCHANGED <<settings, lesson_limit_spinbox, auto_start_checkbox, current_reviews,
                   current_review_index, clock, promoted, answered, retrieved_entry, entry_id, dialog>>

\* the ids of entries that are not stored: the id of an entry never added (None,
\* modelled as 0) and the next id the table has not given out yet
UnknownIds(tbl) == {0, Len(tbl) + 1}

\* db.update_entry(entry) with an entry whose id is not in the table, on the
\* database object the script holds: after os.remove the connection opens an
\* empty file and the UPDATE raises OperationalError (no such table)
ScriptUpdateUnknown ==
    \E id \in UnknownIds(rows) :
        LET entry == [NewEntry(FileLines[1], clock) EXCEPT !.id = id] IN
        /\ rows' = update_entry(rows, entry)
        /\ updated' = Updated(settings, rows, entry)
        /\ recorded' = <<>>
        /\ UNCHANGED last_outcome
        /\ started' = <<>>
        /\ UNCHANGED <<settings, lesson_limit_spinbox, auto_start_checkbox, current_reviews,
                       current_review_index, clock, promoted, answered, retrieved_entry, entry_id, dialog>>

NextStore ==
    \/ ScriptAddEntry
    \/ ScriptGetEntry
    \/ \E file \in Files : ScriptParseGrammarFile(file)
    \/ ScriptCleanUp
    \/ \E correct \in BOOLEAN : ScriptUpdateProgress(correct)
    \/ ScriptUpdateEntry
    \/ ScriptUpdateUnknown
    \/ \E stage \in StageSet : AdvanceClock(stage)

\* the file the script opens: a new one, or the one a run that did not reach its
\* clean-up left behind
InitStore == Init

SpecStore == InitStore /\ [][NextStore]_vars

(***************************************************************************)
(* The application and a script working on the same database file: the     *)
(* script adds an entry and keeps the copy it read back, the application   *)
(* builds review sessions over the stored rows and records outcomes, and   *)
(* both write their copies back with update_entry.  The two are separate   *)
(* processes, so a step of one may fall between any two transactions of    *)
(* the other: every step here reads or writes the entries table in at most *)
(* one transaction.  (init_database at the start of the script changes no  *)
(* row the application has written and stores no setting anew.)            *)
(***************************************************************************)
\* JustRememberApp.start_review_session, the clicks that find a review due: the
\* handler reads the database once, with get_due_reviews, and shows the session
StartSessionOfDue ==
    /\ StartReviewSession
    /\ current_reviews' # <<>>

NextShared ==
    \/ ScriptAddEntry
    \/ ScriptGetEntry
    \/ \E correct \in BOOLEAN : ScriptUpdateProgress(correct)
    \/ ScriptUpdateEntry
    \/ \E stage \in StageSet : AdvanceClock(stage)
    \/ StartSessionOfDue
    \/ \E correct \in BOOLEAN : HandleReviewCompleted(correct)
    \/ SessionCompleteClosed

SpecShared == InitStore /\ [][NextShared]_vars

(***************************************************************************)
(* The settings table used directly by the code that holds the            *)
(* application: db.set_setting on the application's database object and a  *)
(* further GrammarDatabase on the same file, called from the thread the    *)
(* handlers run in, and the application closed and started again on the    *)
(* database it left.                                                       *)
(***************************************************************************)
SpinboxInit == 15       \* init_ui: lesson_limit_spinbox.setValue(15)

\* the keys callers use: the two the application reads and one it does not know
SettingKeys == {"daily_lesson_limit", "auto_start_lessons", "theme"}

\* the values a caller stores under a key: a limit inside and one outside the
\* range of the spinbox, either flag, two themes
SettingValues(key) ==
    CASE key = "daily_lesson_limit" -> {StrOfInt(7), StrOfInt(SpinboxMax + 1)}
      [] key = "auto_start_lessons" -> {"true", "false"}
      [] key = "theme" -> {"dark", "light"}

\* db.set_setting(key, value)
ScriptSetSetting(key, value) ==
    /\ settings' = set_setting(settings, key, value)
    /\ recorded' = <<>>
    /\ UNCHANGED last_outcome
    /\ started' = <<>>
    /\ UNCHANGED <<rows, lesson_limit_spinbox, auto_start_checkbox, current_reviews,
                   current_review_index, clock, promoted, answered, retrieved_entry, entry_id, dialog>>
    /\ updated' = <<>>

\* GrammarDatabase(db_path) on the existing file: __init__ runs init_database
\* (CREATE TABLE IF NOT EXISTS, the UPDATE of empty lesson_status, INSERT OR
\* IGNORE of the defaults)
OpenDatabase ==
    /\ rows' = init_rows(rows)
    /\ settings' = init_settings(settings)
    /\ recorded' = <<>>
    /\ UNCHANGED last_outcome
    /\ started' = <<>>
    /\ UNCHANGED <<lesson_limit_spinbox, auto_start_checkbox, current_reviews,
                   current_review_index, clock, promoted, answered, retrieved_entry, entry_id, dialog>>
    /\ updated' = <<>>

\* QSpinBox.setValue: the value is bound to [minimum, maximum]
SpinboxBound(v) == IF v < SpinboxMin THEN SpinboxMin ELSE IF v > SpinboxMax THEN SpinboxMax ELSE v

\* SettingsWidget.__init__: init_ui sets the spinbox to 15 and the checkbox to
\* checked and connects both to save_settings; load_settings reads both settings
\* and then sets the widgets, and each widget whose value changes fires
\* save_settings with the state the widgets have at that moment
LoadSettings(tbl) ==
    LET limit == DailyLimit(tbl)
        auto_start == AutoStart(tbl)
        value == SpinboxBound(limit)
        t1 == IF value # SpinboxInit THEN save_settings(tbl, value, TRUE) ELSE tbl
        t2 == IF auto_start # TRUE THEN save_settings(t1, value, auto_start) ELSE t1
    IN  [settings |-> t2, spinbox |-> value, checkbox |-> auto_start]

\* the application is closed and started again: JustRememberApp.__init__ opens
\* the database (init_database), starts without a session and builds the
\* settings widget
Restart ==
    LET loaded == LoadSettings(init_settings(settings)) IN
    /\ rows' = init_rows(rows)
    /\ settings' = loaded.settings
    /\ lesson_limit_spinbox' = loaded.spinbox
    /\ auto_start_checkbox' = loaded.checkbox
    /\ current_reviews' = <<>>
    /\ current_review_index' = 0
    /\ dialog' = <<>>
    /\ recorded' = <<>>
    /\ UNCHANGED last_outcome
    /\ started' = <<>>
    /\ UNCHANGED <<clock, promoted, answered, retrieved_entry, entry_id>>
    /\ updated' = <<>>

NextSettings ==
    \/ \E key \in SettingKeys : \E value \in SettingValues(key) : ScriptSetSetting(key, value)
    \/ OpenDatabase
    \/ Restart
    \/ \E v \in Limits : SetLessonLimit(v)
    \/ ToggleAutoStart

SpecSettings == Init /\ [][NextSettings]_vars

(***************************************************************************)
(* The application used by a learner who answers every card correctly:     *)
(* files are imported (auto-start is on), time passes until a review is    *)
(* due, sessions are started and every outcome recorded is correct.  The   *)
(* number of outcomes is limited only by the stages an entry can climb.    *)
(* With auto-start on no entry stays Not Started, so start_review_session  *)
(* never asks "No Reviews Due".  Every imported line has a meaning: an     *)
(* entry without one has no acceptable answer and its outcome is never     *)
(* correct.                                                                *)
(***************************************************************************)
\* the outcomes a run can record when every one is correct
LiveAnswers == (Len(SRSStage) - 1) * MaxItems

\* the stored next_review values of rows still scheduled that lie after now
Upcoming(tbl, now) ==
    {FromIso(tbl[i].next_review) : i \in {j \in 1..Len(tbl) :
        /\ tbl[j].srs_stage # "Burned"
        /\ tbl[j].next_review # NULL
        /\ ~DtLe(FromIso(tbl[j].next_review), now)}}

\* nothing is due: time passes until the next scheduled review is
WaitUntilDue ==
    /\ get_due_reviews(rows, clock) = <<>>
    /\ Upcoming(rows, clock) # {}
    /\ clock' = CHOOSE t \in Upcoming(rows, clock) : \A u \in Upcoming(rows, clock) : DtLe(t, u)
    /\ recorded' = <<>>
    /\ last_outcome' = Remembered(last_outcome, clock')
    /\ started' = <<>>
    /\ UNCHANGED <<rows, settings, lesson_limit_spinbox, auto_start_checkbox,
                   current_reviews, current_review_index, promoted, answered,
                   retrieved_entry, entry_id, dialog>>
    /\ updated' = <<>>

\* the review widget emits review_completed(True): check_answer matched an
\* acceptable answer of the entry shown
AnswerCorrectly == ReviewCompleted(TRUE, LiveAnswers)

\* the files whose lines all carry a meaning: only for such entries is there an
\* answer check_answer accepts
LiveFiles == {file \in Files : \A i \in 1..Len(file) : file[i].meaning # ""}

NextLive ==
    \/ \E file \in LiveFiles : ImportGrammarFile(file)
    \/ WaitUntilDue
    \/ StartReviewSession
    \/ AnswerCorrectly
    \/ SessionCompleteClosed

\* a review is due and no session is running: the learner starts one
StartDueSession ==
    /\ current_reviews = <<>>
    /\ get_due_reviews(rows, clock) # <<>>
    /\ StartReviewSession

\* time keeps advancing, sessions keep being started, and every card shown is
\* answered
FairLive ==
    /\ WF_vars(WaitUntilDue)
    /\ WF_vars(StartDueSession)
    /\ WF_vars(AnswerCorrectly)
    /\ WF_vars(SessionCompleteClosed)

SpecLive == Init /\ [][NextLive]_vars /\ FairLive

(***************************************************************************)
(* Properties.                                                             *)
(***************************************************************************)
\* the stage order and the review intervals (hours) as the specification lists them
ClaimedOrder == <<"Apprentice I", "Apprentice II", "Apprentice III", "Apprentice IV",
                  "Guru I", "Guru II", "Master", "Enlightened", "Burned">>
ClaimedHours == <<4, 8, 24, 48, 168, 336, 720, 2880>>
PosInOrder(v) == CHOOSE i \in 1..Len(ClaimedOrder) : ClaimedOrder[i] = v

\* the k smallest elements of a set of numbers
Smallest(S, k) == {x \in S : Cardinality({y \in S : y < x}) < k}

\* ids of the stored rows with a given lesson_status text
IdsWithStatus(tbl, v) == {tbl[i].id : i \in {j \in 1..Len(tbl) : tbl[j].lesson_status = v}}

\* times at which due-queries are probed
ProbeTimes ==
    {Epoch, clock, AddHours(clock, ClaimedHours[1]),
     AddHours(clock, ClaimedHours[Len(ClaimedHours)]),
     AddHours(clock, 2 * ClaimedHours[Len(ClaimedHours)])}

\* row i is returned by get_due_reviews at time now
InDue(i, now) == rows[i].id \in Ids(get_due_reviews(rows, now))

\* C1: after update_progress with correct=true the stage is the one exactly one
\* position later in the listed order; Burned stays Burned.
C1_CorrectAdvancesOne ==
    (recorded # <<>> /\ retrieved_entry # <<>> /\ recorded[1].correct) =>
        LET before == StageValue(recorded[1].before.srs_stage)
            after == StageValue(retrieved_entry[1].srs_stage)
        IN  IF before = "Burned" THEN after = "Burned"
            ELSE PosInOrder(after) = PosInOrder(before) + 1

C1_Witness ==
    /\ recorded # <<>> /\ retrieved_entry # <<>> /\ recorded[1].correct
    /\ recorded[1].before.srs_stage = "ENLIGHTENED"
    /\ retrieved_entry[1].srs_stage = "BURNED"

\* C2: after update_progress with correct=false, from any stage, the stage is
\* Apprentice I and next_review is the clock reading plus 4 hours.
C2_IncorrectResets ==
    (recorded # <<>> /\ retrieved_entry # <<>> /\ ~recorded[1].correct) =>
        /\ StageValue(retrieved_entry[1].srs_stage) = ClaimedOrder[1]
        /\ retrieved_entry[1].next_review = AddHours(clock, ClaimedHours[1])

C2_Witness ==
    /\ recorded # <<>> /\ retrieved_entry # <<>> /\ ~recorded[1].correct
    /\ recorded[1].before.srs_stage = "BURNED"
    /\ retrieved_entry[1].srs_stage = "APPRENTICE_1"

\* C3: after update_progress that leaves a non-Burned stage,
\* next_review - last_reviewed is exactly the interval of the new stage.
C3_ExactInterval ==
    (recorded # <<>> /\ retrieved_entry # <<>>
        /\ retrieved_entry[1].srs_stage # "BURNED") =>
        LET e == retrieved_entry[1] IN
        e.next_review =
            AddHours(e.last_reviewed, ClaimedHours[PosInOrder(StageValue(e.srs_stage))])

\* C4: a Burned row has no next_review and is in no due-query, whatever the time;
\* and a Burned row stays Burned (so out of every due-query) unless
\* reset_all_progress runs.
C4_BurnedState ==
    \A i \in 1..Len(rows) : rows[i].srs_stage = "Burned" =>
        /\ rows[i].next_review = NULL
        /\ \A now \in ProbeTimes : ~InDue(i, now)

C4_BurnedStep ==
    \A i \in 1..Len(rows) : (rows[i].srs_stage = "Burned" /\ ~ResetAllProgress) =>
        /\ rows'[i].srs_stage = "Burned"
        /\ \A now \in ProbeTimes' : ~InDue(i, now)'

C4_BurnedNeverDue == []C4_BurnedState /\ [][C4_BurnedStep]_vars

C4_Witness ==
    /\ Len(rows) = MaxItems
    /\ rows[1].srs_stage = "Burned"
    /\ \E i \in 1..Len(rows) : InDue(i, clock)

\* C5: get_due_reviews returns no entry whose lesson_status is Not Started.
C5_DueNeverNotStarted ==
    LET due == get_due_reviews(rows, clock) IN
    \A j \in 1..Len(due) : due[j].lesson_status # "NOT_STARTED"

\* C6: a stored row has no next_review exactly when it is Burned or Not Started.
C6_NextReviewUnsetIff ==
    \A i \in 1..Len(rows) :
        (rows[i].next_review = NULL) <=>
            (rows[i].srs_stage = "Burned" \/ rows[i].lesson_status = "Not Started")

C6_Witness ==
    /\ \E i \in 1..Len(rows) : rows[i].srs_stage = "Burned"
    /\ \E i \in 1..Len(rows) : rows[i].lesson_status = "Not Started"
    /\ answered > 0

\* what the start_lessons call recorded in started must have done
StartLessonsPost(call) ==
    LET eligible == IdsWithStatus(call.before, "Not Started")
        k == Min(call.limit, Cardinality(eligible))
    IN  /\ Len(call.ret) = k
        /\ Ids(call.ret) = Smallest(eligible, k)
        /\ \A a, b \in 1..Len(call.ret) : a < b => call.ret[a].id < call.ret[b].id
        /\ \A j \in 1..Len(call.ret) :
            LET e == call.ret[j] IN
            /\ e.lesson_status = "AVAILABLE"
            /\ e.next_review # None
            /\ DtLe(call.at, e.next_review) /\ DtLe(e.next_review, clock)
            /\ rows[e.id].lesson_status = "Available"
            /\ rows[e.id].next_review = IsoFormat(e.next_review)
            /\ e.id \in Ids(get_due_reviews(rows, clock))
        /\ eligible = {} => (call.ret = <<>> /\ rows = call.before)

\* C7: start_lessons(limit) takes the min(limit, n) Not Started rows with the
\* smallest ids, makes each Available and due at the time of the call, stores
\* them and returns them in ascending id order; with none eligible it returns
\* the empty list and changes nothing.
C7_StartLessonsSelects == started # <<>> => StartLessonsPost(started[1])

\* every row has been promoted by earlier calls, one at a time, and a further
\* call finds none eligible: it returns the empty list and leaves the table
C7_Witness ==
    /\ started # <<>>
    /\ started[1].ret = <<>>
    /\ Len(started[1].before) = MaxItems
    /\ IdsWithStatus(started[1].before, "Not Started") = {}
    /\ promoted = 1..MaxItems
    /\ rows = started[1].before

\* C8: start_lessons never returns an id it has returned since the last reset,
\* and every row it returns was Not Started before the call.
C8_Step ==
    started' # <<>> =>
        \A j \in 1..Len(started'[1].ret) :
            LET id == started'[1].ret[j].id IN
            /\ id \notin promoted
            /\ started'[1].before[id].lesson_status = "Not Started"
            /\ id <= Len(rows) => rows[id].lesson_status = "Not Started"

C8_NoDoublePromotion == [][C8_Step]_vars

C8_Witness ==
    /\ started # <<>>
    /\ Cardinality(promoted) = MaxItems
    /\ Len(started[1].ret) = MaxItems - 1
    /\ started[1].ret[1].id = 2
    /\ 1 \notin IdsWithStatus(started[1].before, "Not Started")

\* what one start_lessons call must change and leave alone
StartLessonsFrame(call) ==
    LET before == IdsWithStatus(call.before, "Not Started")
        k == Min(call.limit, Cardinality(before))
    IN  /\ Len(rows) = Len(call.before)
        /\ Cardinality(IdsWithStatus(rows, "Not Started")) = Cardinality(before) - k
        /\ Cardinality(IdsWithStatus(rows, "Available"))
              = Cardinality(IdsWithStatus(call.before, "Available")) + k
        /\ \A i \in 1..Len(call.before) :
            IF call.before[i].id \in Ids(call.ret)
            THEN /\ rows[i].id = call.before[i].id
                 /\ rows[i].grammar = call.before[i].grammar
                 /\ rows[i].learned_date = call.before[i].learned_date
                 /\ rows[i].srs_stage = call.before[i].srs_stage
                 /\ rows[i].correct_answers = call.before[i].correct_answers
                 /\ rows[i].incorrect_answers = call.before[i].incorrect_answers
                 /\ rows[i].last_reviewed = call.before[i].last_reviewed
            ELSE rows[i] = call.before[i]

\* C9: one start_lessons(limit) call lowers the number of Not Started rows by
\* exactly min(limit, n) and raises the number of Available rows by as much;
\* rows it does not select are unchanged, and selected rows keep stage,
\* counters and last_reviewed.
C9_StartLessonsFrame == started # <<>> => StartLessonsFrame(started[1])

C9_Witness ==
    /\ started # <<>>
    /\ started[1].limit > Cardinality(IdsWithStatus(started[1].before, "Not Started"))
    /\ Len(started[1].ret) = 1
    /\ started[1].ret[1].id = 2
    /\ rows[1].lesson_status = "In Progress"
    /\ rows[1].correct_answers > 0
    /\ rows[2].lesson_status = "Available"

\* C10: an outcome recorded for an Available entry makes it In Progress, an
\* outcome for an In Progress entry leaves it In Progress, and a correct outcome
\* on a freshly started entry gives In Progress, Apprentice II, counts 1 and 0.
C10_FirstAnswerInProgress ==
    recorded # <<>> =>
        LET before == recorded[1].before
            row == rows[before.id]
        IN  /\ before.lesson_status \in {"AVAILABLE", "IN_PROGRESS"}
                => row.lesson_status = "In Progress"
            /\ (/\ before.lesson_status = "AVAILABLE"
                /\ before.srs_stage = "APPRENTICE_1"
                /\ before.correct_answers = 0 /\ before.incorrect_answers = 0
                /\ recorded[1].correct)
                => /\ row.srs_stage = "Apprentice II"
                   /\ row.correct_answers = 1
                   /\ row.incorrect_answers = 0

C10_Witness ==
    /\ recorded # <<>>
    /\ recorded[1].before.lesson_status = "AVAILABLE"
    /\ recorded[1].correct
    /\ rows[recorded[1].before.id].lesson_status = "In Progress"

\* C11: right after reset_all_progress every stored row is Not Started,
\* Apprentice I, without next_review and last_reviewed and with both counters 0,
\* and get_lesson_summary reports every row under "Not Started" and 0 elsewhere.
C11_Step ==
    ResetAllProgress =>
        /\ Len(rows') = Len(rows)
        /\ \A i \in 1..Len(rows') :
            /\ rows'[i].lesson_status = "Not Started"
            /\ rows'[i].srs_stage = ClaimedOrder[1]
            /\ rows'[i].next_review = NULL
            /\ rows'[i].correct_answers = 0
            /\ rows'[i].incorrect_answers = 0
            /\ rows'[i].last_reviewed = NULL
        /\ get_lesson_summary(rows') =
              [v \in {"Not Started", "Available", "In Progress"} |->
                  IF v = "Not Started" THEN Len(rows) ELSE 0]

C11_ResetAllClears == [][C11_Step]_vars

C11_Witness ==
    /\ Len(rows) = MaxItems
    /\ answered > 0
    /\ promoted = {}
    /\ \A i \in 1..Len(rows) :
        /\ rows[i].lesson_status = "Not Started"
        /\ rows[i].correct_answers = 0
        /\ rows[i].last_reviewed = NULL

\* position of a stored lesson_status in Not Started -> Available -> In Progress
StatusRank(v) == CASE v = "Not Started" -> 0 [] v = "Available" -> 1 [] v = "In Progress" -> 2

\* C12: in every step other than reset_all_progress the stored lesson_status of
\* each row stays where it is or moves one position forward in
\* Not Started -> Available -> In Progress.
C12_Step ==
    ~ResetAllProgress =>
        \A i \in 1..Len(rows) :
            \/ StatusRank(rows'[i].lesson_status) = StatusRank(rows[i].lesson_status)
            \/ StatusRank(rows'[i].lesson_status) = StatusRank(rows[i].lesson_status) + 1

C12_StatusMonotonic == [][C12_Step]_vars

\* C13: a recorded outcome raises exactly one stored counter of the reviewed row
\* by exactly 1 (correct_answers if correct, else incorrect_answers) and leaves
\* the other as stored; every step other than a recorded outcome and
\* reset_all_progress leaves all stored counters as they are.
C13_Step ==
    ~ResetAllProgress =>
        /\ Len(rows') >= Len(rows)
        /\ \A i \in 1..Len(rows) :
            LET dc == rows'[i].correct_answers - rows[i].correct_answers
                dw == rows'[i].incorrect_answers - rows[i].incorrect_answers
            IN  IF recorded' # <<>> /\ recorded'[1].before.id = rows[i].id
                THEN IF recorded'[1].correct THEN dc = 1 /\ dw = 0 ELSE dc = 0 /\ dw = 1
                ELSE dc = 0 /\ dw = 0

C13_CountersStepByOne == [][C13_Step]_vars

\* C14: update_entry called with an id that is in no stored row raises
\* NotFoundError and leaves the table as it was.
C14_UpdateUnknownFails ==
    (updated # <<>> /\ updated[1].id \notin Ids(updated[1].before)) =>
        /\ updated[1].error = "NotFoundError"
        /\ rows = updated[1].before

\* a step of start_review_session: the click, or the reply to "No Reviews Due"
BuildsSession == StartReviewSession \/ \E reply \in BOOLEAN : StartReviewSessionReply(reply)

\* C15: every entry start_review_session puts into current_reviews is, when the
\* handler returns, a fresh copy of a stored row that is Available or In Progress,
\* not Burned, and has a next_review that is set and not later than the clock.
C15_Step ==
    BuildsSession =>
        \A j \in 1..Len(current_reviews') :
            LET e == current_reviews'[j] IN
            /\ e.lesson_status \in {"AVAILABLE", "IN_PROGRESS"}
            /\ e.srs_stage # "BURNED"
            /\ e.next_review # None
            /\ DtLe(e.next_review, clock')
            /\ e.id \in 1..Len(rows')
            /\ rows'[e.id] = ToRow(e, e.id)
            /\ rows'[e.id].lesson_status \in {"Available", "In Progress"}
            /\ rows'[e.id].srs_stage # "Burned"

C15_SessionOnlyReviewable == [][C15_Step]_vars

C15_Witness ==
    /\ Len(current_reviews) = MaxItems
    /\ current_review_index = 0
    /\ \E j \in 1..Len(current_reviews) : current_reviews[j].lesson_status = "AVAILABLE"
    /\ \E j \in 1..Len(current_reviews) : current_reviews[j].lesson_status = "IN_PROGRESS"
    /\ current_reviews[1].id > current_reviews[2].id

\* the stored rows a due-query at time now has to return: next_review set and
\* not later than now (compared as datetimes), stage not Burned
MustBeDue(tbl, now) ==
    {tbl[i].id : i \in {j \in 1..Len(tbl) :
        /\ tbl[j].next_review # NULL
        /\ DtLe(FromIso(tbl[j].next_review), now)
        /\ tbl[j].srs_stage # "Burned"}}

\* C16: get_due_reviews at any time returns exactly the stored rows whose
\* next_review is set and not later than that time and whose stage is not
\* Burned, each once and as stored, in ascending order of next_review.
C16_DueExactAndOrdered ==
    \A now \in ProbeTimes \cup {AddHours(clock, -ClaimedHours[1]), <<clock[1], MaxDriftUs>>} :
        LET due == get_due_reviews(rows, now) IN
        /\ Ids(due) = MustBeDue(rows, now)
        /\ Len(due) = Cardinality(MustBeDue(rows, now))
        /\ \A j \in 1..Len(due) : due[j] = RowToEntry(rows[due[j].id])
        /\ \A a, b \in 1..Len(due) : a < b => DtLe(due[a].next_review, due[b].next_review)

C16_Witness ==
    LET due == get_due_reviews(rows, clock) IN
    /\ Len(due) = MaxItems
    /\ due[1].id > due[2].id
    /\ due[1].next_review # due[2].next_review

\* C17, in every state: a session (a non-empty current_reviews) holds each entry
\* once and its cursor is within 0..n; the cursor is n exactly while "Session
\* Complete" is shown.
C17_State ==
    current_reviews # <<>> =>
        /\ current_review_index \in 0..Len(current_reviews)
        /\ (current_review_index = Len(current_reviews))
              <=> (dialog = Box("Session Complete", 0))
        /\ \A a, b \in 1..Len(current_reviews) :
            current_reviews[a].id = current_reviews[b].id => a = b

\* C17, in every step: a session is built with the cursor at 0; a recorded outcome
\* is applied to the entry at the cursor and stored with update_entry, the other
\* entries of the session stay as they are, and the cursor moves on by one; a
\* session whose cursor has reached n takes no further outcome and is cleared
\* when "Session Complete" is closed; no other step touches session or cursor.
C17_Step ==
    /\ (BuildsSession /\ current_reviews' # <<>>) => current_review_index' = 0
    /\ recorded' # <<>> =>
        LET n == Len(current_reviews)
            k == current_review_index
            before == recorded'[1].before
        IN  /\ k < n
            /\ before = current_reviews[k + 1]
            /\ \E reads \in ProgressReads(before, recorded'[1].correct, clock) :
                LET after == update_progress(before, recorded'[1].correct, reads[1], reads[2])
                IN  /\ rows' = update_entry(rows, after)
                    /\ current_review_index' = k + 1
                    /\ current_reviews' = [current_reviews EXCEPT ![k + 1] = after]
    /\ (current_reviews # <<>> /\ current_review_index = Len(current_reviews)) =>
        \/ UNCHANGED <<current_reviews, current_review_index, dialog>>
        \/ /\ SessionCompleteClosed
           /\ current_reviews' = <<>>
           /\ current_review_index' = 0
    /\ (recorded' = <<>> /\ ~BuildsSession /\ ~SessionCompleteClosed)
          => UNCHANGED <<current_reviews, current_review_index>>

C17_SessionCompletes == []C17_State /\ [][C17_Step]_vars

\* a session of MaxItems entries is complete: every entry has received its
\* outcome, the cursor is n and "Session Complete" is shown
C17_Witness ==
    /\ Len(current_reviews) = MaxItems
    /\ current_review_index = MaxItems
    /\ dialog = Box("Session Complete", 0)
    /\ answered = MaxItems
    /\ recorded # <<>>
    /\ recorded[1].before.id = current_reviews[current_review_index].id
    /\ \A j \in 1..Len(current_reviews) : current_reviews[j].last_reviewed # None

\* C18: when a writer stores its copy of a row with update_entry, the stored row
\* becomes exactly that copy, whatever another writer stored in the row after
\* the copy was read; every other row stays as it was.
C18_LastWriterWins ==
    (updated # <<>> /\ retrieved_entry # <<>> /\ updated[1].id = retrieved_entry[1].id) =>
        \A i \in 1..Len(rows) :
            IF rows[i].id = updated[1].id
            THEN rows[i] = ToRow(retrieved_entry[1], updated[1].id)
            ELSE rows[i] = updated[1].before[i]

\* the application and the script each read row 1, each recorded one outcome on
\* its copy and stored it; the stored counters show the script's outcome only
C18_Witness ==
    /\ updated # <<>> /\ retrieved_entry # <<>>
    /\ updated[1].id = 1
    /\ answered = 2
    /\ updated[1].before[1].correct_answers = 1
    /\ updated[1].before[1].incorrect_answers = 0
    /\ rows[1].correct_answers = 0
    /\ rows[1].incorrect_answers = 1

\* C19: an import with auto_start_lessons "true" makes exactly
\* min(daily_lesson_limit, number of Not Started rows after the ingestion) rows
\* Available; an import with auto_start_lessons "false" starts no lesson, leaves
\* the stored rows as they were and every ingested row Not Started.
C19_Step ==
    (\E file \in Files : ImportGrammarFile(file)) =>
        LET old == 1..Len(rows)
            new == (Len(rows) + 1)..Len(rows')
            n == Cardinality(IdsWithStatus(rows, "Not Started")) + Cardinality(new)
            k == Min(IntOfStr(settings["daily_lesson_limit"]), n)
        IN  /\ Len(rows') >= Len(rows)
            /\ IF settings["auto_start_lessons"] = "true"
               THEN /\ Cardinality(IdsWithStatus(rows', "Available"))
                          = Cardinality(IdsWithStatus(rows, "Available")) + k
                    /\ Cardinality(IdsWithStatus(rows', "Not Started")) = n - k
                    /\ \A i \in new : rows'[i].lesson_status \in {"Not Started", "Available"}
                    /\ \A i \in old : rows[i].lesson_status # "Not Started" => rows'[i] = rows[i]
                    /\ (n > 0) = (started' # <<>>)
               ELSE /\ \A i \in old : rows'[i] = rows[i]
                    /\ \A i \in new : /\ rows'[i].lesson_status = "Not Started"
                                      /\ rows'[i].next_review = NULL
                    /\ started' = <<>>

C19_AutoStartOnImport == [][C19_Step]_vars

C19_Witness ==
    /\ settings["auto_start_lessons"] = "true"
    /\ IntOfStr(settings["daily_lesson_limit"]) = DefaultLimit
    /\ started # <<>>
    /\ current_reviews = <<>>
    /\ started[1].limit = 1
    /\ Len(started[1].ret) = 1
    /\ rows[Len(rows)].lesson_status = "Available"

\* C20: get_lesson_summary returns a mapping whose keys are exactly Not Started,
\* Available and In Progress; each value is the number of stored rows with that
\* status, and the three values add up to the number of stored rows.
C20_SummaryComplete ==
    LET summary == get_lesson_summary(rows) IN
    /\ DOMAIN summary = {"Not Started", "Available", "In Progress"}
    /\ \A v \in DOMAIN summary : summary[v] = Cardinality(IdsWithStatus(rows, v))
    /\ summary["Not Started"] + summary["Available"] + summary["In Progress"] = Len(rows)

C20_Witness ==
    /\ Len(rows) = MaxItems
    /\ get_lesson_summary(rows)["Available"] = 0
    /\ get_lesson_summary(rows)["Not Started"] = 1
    /\ get_lesson_summary(rows)["In Progress"] = MaxItems - 1

\* C21: in every state a stored Available row has never been answered (both
\* counters 0, no last_reviewed, stage Apprentice I) and a stored In Progress
\* row has been answered (counters add up to at least 1, last_reviewed set).
C21_StatusMatchesHistory ==
    \A i \in 1..Len(rows) :
        /\ rows[i].lesson_status = "Available" =>
            /\ rows[i].correct_answers = 0
            /\ rows[i].incorrect_answers = 0
            /\ rows[i].last_reviewed = NULL
            /\ rows[i].srs_stage = ClaimedOrder[1]
        /\ rows[i].lesson_status = "In Progress" =>
            /\ rows[i].correct_answers + rows[i].incorrect_answers >= 1
            /\ rows[i].last_reviewed # NULL

\* a row answered, reset and started again is Available next to an answered row
C21_Witness ==
    /\ Len(rows) = MaxItems
    /\ answered = MaxAnswers
    /\ promoted # {}
    /\ \E i \in 1..Len(rows) : rows[i].lesson_status = "Available"
    /\ \E i \in 1..Len(rows) :
        rows[i].lesson_status = "In Progress" /\ rows[i].incorrect_answers = 1

\* the columns no scheduling operation may change: id, content, creation date
Content(row) == <<row.id, row.grammar, row.meaning, row.learned_date>>

\* C22: no step (a recorded outcome, start_lessons, make_all_due,
\* reset_all_progress or any other handler) changes the id, the content or
\* learned_date of a stored row, no row disappears, and the entries of a
\* session carry the content of the rows they were read from.
C22_Step ==
    /\ Len(rows') >= Len(rows)
    /\ \A i \in 1..Len(rows) : Content(rows'[i]) = Content(rows[i])
    /\ \A j \in 1..Len(current_reviews') :
        LET e == current_reviews'[j] IN
        Content(ToRow(e, e.id)) = Content(rows'[e.id])

C22_ContentUnchanged == [][C22_Step]_vars

\* the only row was imported with a fractional learned_date, answered, reset and
\* started again
C22_Witness ==
    /\ Len(rows) = 1
    /\ answered > 0
    /\ Len(rows[1].learned_date) = 2
    /\ rows[1].lesson_status = "Available"
    /\ rows[1].grammar = FileLines[1].grammar

\* the defaults get_setting is probed with, per key
ProbeDefaults(key) ==
    CASE key = "daily_lesson_limit" -> {StrOfInt(DefaultLimit), StrOfInt(0)}
      [] key = "auto_start_lessons" -> {"true", ""}
      [] key = "theme" -> {"", "dark"}

\* C23, on the fresh store: daily_lesson_limit reads "15", auto_start_lessons
\* reads "true", and a key never set reads the default handed in.
C23_Fresh ==
    /\ \A d \in ProbeDefaults("daily_lesson_limit") :
        get_setting(settings, "daily_lesson_limit", d) = <<1, 5>>
    /\ \A d \in ProbeDefaults("auto_start_lessons") :
        get_setting(settings, "auto_start_lessons", d) = "true"
    /\ \A d \in ProbeDefaults("theme") : get_setting(settings, "theme", d) = d

\* C23, in every step: after set_setting(k, v) get_setting(k, d) is v for every
\* default d, whatever k held before, and every other key reads as it did;
\* opening the database again leaves every stored value as it was; so does
\* starting the application again on values its own widgets can hold.
C23_Step ==
    /\ \A k \in SettingKeys : \A v \in SettingValues(k) :
        ScriptSetSetting(k, v) =>
            /\ \A d \in ProbeDefaults(k) : get_setting(settings', k, d) = v
            /\ \A k2 \in SettingKeys \ {k} : \A d \in ProbeDefaults(k2) :
                get_setting(settings', k2, d) = get_setting(settings, k2, d)
    /\ OpenDatabase =>
        \A k \in SettingKeys : \A d \in ProbeDefaults(k) :
            get_setting(settings', k, d) = get_setting(settings, k, d)
    /\ (Restart /\ DailyLimit(settings) \in SpinboxMin..SpinboxMax) =>
        \A k \in SettingKeys : \A d \in ProbeDefaults(k) :
            get_setting(settings', k, d) = get_setting(settings, k, d)

\* C23: set_setting / get_setting have upsert semantics, a key never set reads
\* the supplied default, the fresh store reads "15" and "true", and
\* re-initialising the store keeps the values that were set.
C23_SettingsUpsert == C23_Fresh /\ [][C23_Step]_vars

\* values set through set_setting (limit 7, flag off, theme replaced) were loaded
\* by a restarted application and are still stored
C23_Witness ==
    /\ "theme" \in DOMAIN settings
    /\ settings["theme"] = "light"
    /\ settings["daily_lesson_limit"] = <<7>>
    /\ settings["auto_start_lessons"] = "false"
    /\ lesson_limit_spinbox = 7
    /\ auto_start_checkbox = FALSE

\* the readings an import may have taken for learned_date
ImportDates(t, n) == UNION {{r[k] : k \in 1..Len(r)} : r \in ReadSeqs(t, n)}

\* C24, in every state: get_all_entries returns every stored row exactly once in
\* ascending id order, get_entry of a stored id returns that row, and get_entry
\* of an id that was never given out returns nothing.
C24_State ==
    LET all == get_all_entries(rows) IN
    /\ Len(all) = Len(rows)
    /\ \A a, b \in 1..Len(all) : a < b => all[a].id < all[b].id
    /\ \A i \in 1..Len(rows) :
        /\ Cardinality({j \in 1..Len(all) : all[j].id = rows[i].id}) = 1
        /\ get_entry(rows, rows[i].id) = <<RowToEntry(rows[i])>>
        /\ \E j \in 1..Len(all) : all[j] = RowToEntry(rows[i])
    /\ \A id \in UnknownIds(rows) : get_entry(rows, id) = <<>>

\* C24, in every step: no row disappears and no stored id changes; an import
\* gives each ingested entry an id greater than every id stored before and
\* different from the other new ones, and get_entry of that id returns the entry
\* as parse_grammar_file created it (or as start_lessons then promoted it).
C24_Step ==
    /\ Len(rows') >= Len(rows)
    /\ \A i \in 1..Len(rows) : rows'[i].id = rows[i].id
    /\ \A file \in Files : ImportGrammarFile(file) =>
        /\ Len(rows') = Len(rows) + Len(file)
        /\ \A j \in 1..Len(file) :
            LET id == rows'[Len(rows) + j].id
                got == get_entry(rows', id)
            IN  /\ \A i \in 1..Len(rows) : id > rows[i].id
                /\ \A k \in 1..Len(file) : k # j => rows'[Len(rows) + k].id # id
                /\ got # <<>>
                /\ \E d \in ImportDates(clock, Len(file)) :
                    LET created == [NewEntry(file[j], d) EXCEPT !.id = id] IN
                    IF AutoStart(settings)
                    THEN got[1] = [created EXCEPT !.lesson_status = "AVAILABLE",
                                                  !.next_review = got[1].next_review]
                           \/ got[1] = created
                    ELSE got[1] = created

\* C24: add_entry gives each new entry an id greater than every stored id,
\* get_entry then returns the entry as created, get_all_entries returns every
\* stored entry once in ascending id order, and the number of rows never drops.
C24_IdsAndListing == []C24_State /\ [][C24_Step]_vars

\* an import without auto-start added a second row to a table whose first row
\* has been answered
C24_Witness ==
    /\ Len(rows) = MaxItems
    /\ settings["auto_start_lessons"] = "false"
    /\ rows[1].lesson_status = "In Progress"
    /\ rows[MaxItems].lesson_status = "Not Started"
    /\ Len(rows[MaxItems].learned_date) = 2
    /\ get_entry(rows, MaxItems)[1].learned_date = <<0, MaxDriftUs>>
    /\ answered > 0

\* C25: a stored row that is Not Started (as reset_all_progress leaves every
\* row) stays Not Started with both counters 0 in every step that is not a
\* start_lessons call returning it; in particular a recorded outcome of a
\* session built before the reset does not move it.
C25_Step ==
    \A i \in 1..Len(rows) :
        (/\ rows[i].lesson_status = "Not Started"
         /\ (started' = <<>> \/ rows[i].id \notin Ids(started'[1].ret))) =>
            /\ rows'[i].lesson_status = "Not Started"
            /\ rows'[i].srs_stage = ClaimedOrder[1]
            /\ rows'[i].correct_answers = 0
            /\ rows'[i].incorrect_answers = 0

C25_ResetStaysReset == [][C25_Step]_vars

\* stage position of a stored row: Apprentice I = 0 ... Burned = 8
StagePos(row) == PosInOrder(row.srs_stage) - 1

\* C26, in every state: the stage position of a stored row is at most its
\* correct_answers.
C26_State ==
    \A i \in 1..Len(rows) : StagePos(rows[i]) <= rows[i].correct_answers

\* C26, in every step: the stage position of a stored row rises only when a
\* correct outcome is recorded for that row, and then by one; so a row at
\* position p has had p correct outcomes in a row since its last incorrect
\* outcome or reset.
C26_Step ==
    \A i \in 1..Len(rows) :
        StagePos(rows'[i]) > StagePos(rows[i]) =>
            /\ recorded' # <<>>
            /\ recorded'[1].correct
            /\ recorded'[1].before.id = rows[i].id
            /\ StagePos(rows'[i]) = StagePos(rows[i]) + 1

\* C26: the stage position never exceeds correct_answers, and a row reaches
\* Burned only through 8 correct outcomes in a row since its last incorrect
\* outcome or reset.
C26_StageNeedsStreak == []C26_State /\ [][C26_Step]_vars

\* times before t + 4 hours at which a due-query is probed: t itself, the last
\* second and the last microsecond before t + 4 hours, with and without a
\* fractional part
SoonTimes(t) ==
    LET end == AddHours(t, ClaimedHours[1]) IN
    {t, <<end[1] - 1, 0>>, <<end[1] - 1, 999999>>}
        \cup (IF end[2] > 0 THEN {<<end[1], 0>>, <<end[1], end[2] - 1>>} ELSE {})

\* the stored row id is returned by no due-query before clock + 4 hours
NotDueSoon(tbl, id, t) ==
    \A now \in SoonTimes(t) : id \notin Ids(get_due_reviews(tbl, now))

\* the rows whose latest outcome is remembered: stored less than 4 hours ago,
\* with no make_all_due since
Answered == {id \in 1..MaxItems : last_outcome[id] # <<>>}

\* the rows among them with no reset_all_progress since the outcome
AnsweredNoReset == {id \in Answered : ~last_outcome[id][1].reset}

\* a session built by the click on Start Review holds none of the rows ids
SessionWithout(ids) ==
    StartReviewSession => \A id \in ids : id \notin Ids(current_reviews')

\* C27 as the claim words it, with make_all_due as the only exemption: a row
\* for which an outcome was stored at time t is returned by no due-query at a
\* time before t + 4 hours unless make_all_due has run since, and a session
\* built in that time does not hold it.
C27_OnlyMakeAllDueExempt ==
    /\ [](\A id \in Answered : NotDueSoon(rows, id, last_outcome[id][1].at))
    /\ [][SessionWithout(Answered)]_vars

\* C27, in every state: the row a recorded outcome was just stored for is
\* returned by no due-query before the present time plus 4 hours; and every row
\* with an outcome stored at time t and neither make_all_due nor
\* reset_all_progress since is returned by no due-query before t + 4 hours.
C27_State ==
    /\ recorded # <<>> => NotDueSoon(rows, recorded[1].before.id, clock)
    /\ \A id \in AnsweredNoReset : NotDueSoon(rows, id, last_outcome[id][1].at)

\* C27: after an outcome is stored for a row at time t the row is due at no
\* time before t + 4 hours, so a session rebuilt in that time does not present
\* it again, unless make_all_due or reset_all_progress has run since.
C27_NotDueAfterOutcome == []C27_State /\ [][SessionWithout(AnsweredNoReset)]_vars

\* an incorrect outcome was recorded at a clock reading with a fractional part
\* while the session goes on; the row is due exactly 4 hours later
C27_Witness ==
    /\ recorded # <<>>
    /\ ~recorded[1].correct
    /\ clock[2] = MaxDriftUs
    /\ current_reviews # <<>>
    /\ last_outcome[recorded[1].before.id] = Outcome(clock)
    /\ rows[recorded[1].before.id].next_review = IsoFormat(AddHours(clock, ClaimedHours[1]))
    /\ recorded[1].before.id \in Ids(get_due_reviews(rows, AddHours(clock, ClaimedHours[1])))

\* C28, in every state of a run with correct outcomes only: the stage position
\* of a stored row is the number of its correct outcomes, so a Burned row has
\* exactly 8, and a Burned row has no next_review.
C28_State ==
    \A i \in 1..Len(rows) :
        /\ StagePos(rows[i]) = rows[i].correct_answers
        /\ rows[i].incorrect_answers = 0
        /\ rows[i].srs_stage = "Burned" =>
            /\ rows[i].correct_answers = Len(ClaimedOrder) - 1
            /\ rows[i].next_review = NULL

\* C28, in every step: a Burned row receives no further outcome and does not
\* change.
C28_Step ==
    \A i \in 1..Len(rows) : rows[i].srs_stage = "Burned" =>
        /\ rows'[i] = rows[i]
        /\ recorded' # <<>> => recorded'[1].before.id # rows[i].id

\* C28, eventually: every row that is Available or In Progress reaches Burned.
C28_Leads ==
    \A i \in 1..MaxItems :
        (Len(rows) >= i /\ rows[i].lesson_status \in {"Available", "In Progress"})
            ~> (Len(rows) >= i /\ rows[i].srs_stage = "Burned")

\* C28: when time keeps advancing, sessions keep being started and completed
\* and every outcome is correct, each Available or In Progress row reaches
\* Burned after exactly 8 correct outcomes, and from then on it receives no
\* outcome and its stage, counters and next_review stay as they are.
C28_EventuallyBurned == []C28_State /\ [][C28_Step]_vars /\ C28_Leads

\* every row is Burned: the stored one after one more outcome, the imported one
\* after eight
C28_Witness ==
    /\ Len(rows) = MaxItems
    /\ \A i \in 1..Len(rows) : rows[i].srs_stage = "Burned" /\ rows[i].correct_answers = 8
    /\ answered = Len(ClaimedOrder)
    /\ current_reviews = <<>>

\* C29: make_all_due gives every stored row that is Available or In Progress
\* and not Burned a next_review read from the clock during the call, changes no
\* other column of it, and leaves every Not Started row and every Burned row
\* as it was; afterwards get_due_reviews returns each row it changed.
C29_Step ==
    MakeAllDue =>
        /\ Len(rows') = Len(rows)
        /\ \A i \in 1..Len(rows) :
            IF /\ rows[i].lesson_status \in {"Available", "In Progress"}
               /\ rows[i].srs_stage # "Burned"
            THEN /\ rows'[i].next_review # NULL
                 /\ DtLe(clock, FromIso(rows'[i].next_review))
                 /\ DtLe(FromIso(rows'[i].next_review), clock')
                 /\ rows'[i] = [rows[i] EXCEPT !.next_review = rows'[i].next_review]
                 /\ rows[i].id \in Ids(get_due_reviews(rows', clock'))
            ELSE rows'[i] = rows[i]

C29_MakeAllDueFrame == [][C29_Step]_vars

\* no time has passed: the first row was answered into Burned and has no
\* next_review, the second was answered and is due again before its interval
\* is over
C29_Witness ==
    /\ Len(rows) = MaxItems
    /\ clock[1] = Epoch[1]
    /\ rows[1].srs_stage = "Burned"
    /\ rows[1].next_review = NULL
    /\ rows[2].lesson_status = "In Progress"
    /\ rows[2].last_reviewed # NULL
    /\ rows[2].id \in Ids(get_due_reviews(rows, clock))

\* no Available or In Progress row is due when the session is requested
NoReviewDue ==
    \A now \in {clock, clock'} : Reviewable(get_due_reviews(rows, now)) = <<>>

\* C30, in every state in which "No Reviews Due" is open: the session is empty,
\* the table holds as many Not Started rows as the handler counted, and at least
\* one.
C30_State ==
    (dialog # <<>> /\ dialog[1].box = "No Reviews Due") =>
        /\ current_reviews = <<>>
        /\ dialog[1].not_started = Cardinality(IdsWithStatus(rows, "Not Started"))
        /\ dialog[1].not_started > 0

\* C30, in every step: start_review_session with no Available or In Progress row
\* due leaves the table as it was and the session empty, and asks exactly when a
\* Not Started row exists; on Yes start_lessons promotes exactly
\* min(daily_lesson_limit, number of Not Started rows) rows, those with the
\* smallest ids, and the session holds exactly these rows, as stored, with the
\* cursor at the first; on No the table stays as it was and the session empty.
C30_Step ==
    LET eligible == IdsWithStatus(rows, "Not Started")
        k == Min(IntOfStr(settings["daily_lesson_limit"]), Cardinality(eligible))
    IN  /\ (StartReviewSession /\ NoReviewDue) =>
            /\ rows' = rows
            /\ current_reviews' = <<>>
            /\ started' = <<>>
            /\ dialog' = IF eligible # {}
                         THEN Box("No Reviews Due", Cardinality(eligible)) ELSE <<>>
        /\ StartReviewSessionReply(TRUE) =>
            /\ started' # <<>>
            /\ Len(started'[1].ret) = k
            /\ IdsWithStatus(rows', "Available")
                  = IdsWithStatus(rows, "Available") \cup Smallest(eligible, k)
            /\ IdsWithStatus(rows', "Not Started") = eligible \ Smallest(eligible, k)
            /\ \A i \in 1..Len(rows) : rows[i].id \notin eligible => rows'[i] = rows[i]
            /\ Len(current_reviews') = k
            /\ Ids(current_reviews') = Smallest(eligible, k)
            /\ \A j \in 1..Len(current_reviews') :
                LET e == current_reviews'[j] IN
                /\ e.lesson_status = "AVAILABLE"
                /\ rows'[e.id] = ToRow(e, e.id)
            /\ current_review_index' = 0
            /\ dialog' = <<>>
        /\ StartReviewSessionReply(FALSE) =>
            /\ rows' = rows
            /\ current_reviews' = <<>>
            /\ started' = <<>>
            /\ dialog' = <<>>

\* C30: a session requested while nothing reviewable is due promotes exactly
\* min(daily_lesson_limit, number of Not Started rows) rows on Yes and reviews
\* exactly those; on No, or without a Not Started row, nothing is stored and
\* nothing is reviewed.
C30_LessonsWhenNothingDue == []C30_State /\ [][C30_Step]_vars

\* the session was built from lessons: one of two Not Started rows was promoted
\* under a limit of 1 and is the only entry of the session
C30_Witness ==
    /\ started # <<>>
    /\ started[1].limit = 1
    /\ Cardinality(IdsWithStatus(started[1].before, "Not Started")) = MaxItems
    /\ IntOfStr(settings["daily_lesson_limit"]) = 1
    /\ current_reviews = started[1].ret
    /\ current_review_index = 0
    /\ Len(current_reviews) = 1
    /\ rows[1].lesson_status = "Available"
    /\ rows[MaxItems].lesson_status = "Not Started"

====
